---- MODULE Spec2Model ----
(***************************************************************************)
(* Model of the concurrent core of CODE_SOKECT: the ThreadPool             *)
(* (libs/common) and the TcpServer built on it (libs/tcp).                 *)
(*                                                                         *)
(* Threads are named by tuples: <<"worker", i>>, <<"caller", j>>,          *)
(* <<"accept">>, <<"main">>; NoThread (the empty tuple) is "no owner".     *)
(* A queued task is a tuple too: <<t>> in the pool specification,          *)
(* <<fd, conn>> (the captures of the handle_client lambda) in the server   *)
(* specification; NoTask is the empty tuple.                               *)
(***************************************************************************)
EXTENDS Integers, Sequences, FiniteSets, TLC

\* ------------------------------------------------------------------ bounds
MaxThreads == 2      \* largest pool size K explored (K is chosen in Init)
NumCallers == 2      \* threads that call submit() / shutdown() on the pool
MaxTasks == 2        \* submit() calls made in one run of the pool
MaxFd == 2           \* descriptor numbers the OS hands to accepted sockets
MaxConns == 2        \* connections accepted in one run of the server
MaxMsgs == 2         \* chunks a peer sends on one connection
MaxStarts == 2       \* successful start() calls in one run of the server

Workers == 1..MaxThreads
Callers == 1..NumCallers
TaskIds == 1..MaxTasks
FDs == 1..MaxFd
Conns == 1..MaxConns
Dgrams == 1..MaxMsgs

NoThread == << >>
NoTask == << >>
WorkerThread(w) == <<"worker", w>>
CallerThread(c) == <<"caller", c>>
AcceptThread == <<"accept">>
MainThread == <<"main">>
UserThread == <<"user">>
OtherThread == <<"other">>

VARIABLES
    \* ---- ThreadPool (thread_pool.h:104-109)
    num_threads,     \* size of workers_
    tasks_,          \* std::queue of tasks
    queue_mutex_,    \* owner of queue_mutex_, or NoThread
    stop_,           \* std::atomic<bool> stop_
    wpc,             \* position of every worker thread in its loop
    wtask,           \* the task a worker has moved out of the queue
    \* ---- pool callers and what they observed
    cpc,             \* position of every caller thread
    carg,            \* the task id a caller is submitting
    nextTask,        \* next fresh task id
    future,          \* per task id: state of the std::future returned by submit()
    runs,            \* per task id: how many times a worker invoked it
    accepted,        \* task ids that submit() put on the queue
    closer,          \* the shutdown() call that set stop_: "none", "joining", "returned"
    \* ---- TcpServer (tcp_server.h, private members)
    running_,        \* std::atomic<bool> running_
    server_fd_,      \* the listening descriptor, -1 when none
    clients_,        \* registry: descriptor -> peer address (the connection)
    clients_mutex_,  \* owner of clients_mutex_, or NoThread
    apc,             \* position of the accept thread
    afd,             \* accept_loop's client_fd
    aconn,           \* accept_loop's client_addr_str (names the connection)
    hmsg,            \* per worker: the chunk handle_client has in its buffer
    \* ---- the operating system and the peers
    listening,       \* the listening socket is open
    fdtab,           \* descriptor -> the connection it refers to, 0 when closed
    nextConn,        \* next connection to arrive
    sent,            \* per connection: chunks that have arrived from the peer
    rcvd,            \* per connection: chunks recv() has returned
    \* ---- the thread that drives the server
    mpc,             \* position of the controlling thread
    marg,            \* descriptor argument of the call in progress
    mres,            \* what the call in progress is about to return
    mtodo,           \* broadcast: the entries the range-for has yet to visit, in order
    starts,          \* successful start() calls so far
    \* ---- callbacks observed
    disc,            \* per connection: disconnect callbacks invoked
    \* ---- the peers of the TcpServer
    stalled,         \* connections whose peer stopped reading (send buffer full)
    bsnap,           \* broadcast in progress: the registry's identifiers when it locked
    bsent,           \* broadcast in progress: ::send calls made, per identifier
    bfailed,         \* broadcast in progress: identifiers whose ::send did not take it all
    \* ---- the program
    component,       \* the object the program constructed and drives
    upc,             \* position of the thread that drives a client or UdpServer
    ures,            \* what its last call returned, << >> when none
    \* ---- TcpClient (tcp_client.h:137-143)
    connected_,      \* std::atomic<bool> connected_
    tc_socket_fd_,   \* TcpClient::socket_fd_, -1 when none
    tc_rpc,          \* position of receive_thread_ ("none": not joinable)
    tc_open,         \* the client's socket is open
    tc_peer,         \* the server's end: "none", "open", "closed"
    tc_in,           \* chunks from the server not yet read
    tc_connects,     \* successful connect() calls so far
    tc_true,         \* connection callbacks with true, in total
    tc_false,        \* connection callbacks with false since the last connect
    send_mutex_,     \* owner of TcpClient::send_mutex_, or NoThread
    xpc,             \* position of a second thread of the program that calls send()
    xres,            \* what its last send() returned, << >> when none
    \* ---- UdpServer (udp_server.h, private members)
    us_running_,     \* UdpServer::running_
    us_socket_fd_,   \* UdpServer::socket_fd_, -1 when none
    us_rpc,          \* position of receive_thread_
    us_msg,          \* the datagram receive_loop holds (0: an empty one)
    us_open,         \* the server's socket is open
    us_in,           \* the datagram waiting in the socket, 0 when none
    us_starts,       \* successful start() calls so far
    us_next,         \* next datagram to arrive
    us_cb,           \* per datagram (0: empty ones): message callbacks invoked
    \* ---- UdpClient (udp_client.h:141-147)
    initialized_,    \* std::atomic<bool> initialized_
    receiving_,      \* std::atomic<bool> receiving_
    uc_socket_fd_,   \* UdpClient::socket_fd_, -1 when none
    uc_rpc,          \* position of receive_thread_
    uc_open,         \* the client's socket is open
    uc_in,           \* a datagram is waiting in the socket
    uc_inits         \* successful init() calls so far

poolVars == <<num_threads, tasks_, queue_mutex_, stop_, wpc, wtask>>
callerVars == <<cpc, carg, nextTask, future, runs, accepted, closer>>
serverVars == <<running_, server_fd_, clients_, clients_mutex_, apc, afd, aconn, hmsg>>
osVars == <<listening, fdtab, nextConn, sent, rcvd>>
mainVars == <<mpc, marg, mres, mtodo, starts>>
cbVars == <<disc>>
tcpVars == <<serverVars, osVars, mainVars, cbVars>>
peerVars == <<stalled, bsnap, bsent, bfailed>>
userVars == <<component, upc, ures>>
clientVars == <<connected_, tc_socket_fd_, tc_rpc, tc_open, tc_peer, tc_in,
                tc_connects, tc_true, tc_false>>
udpServerVars == <<us_running_, us_socket_fd_, us_rpc, us_msg, us_open, us_in,
                   us_starts, us_next, us_cb>>
udpClientVars == <<initialized_, receiving_, uc_socket_fd_, uc_rpc, uc_open,
                   uc_in, uc_inits>>
senderVars == <<send_mutex_, xpc, xres>>
otherVars == <<peerVars, userVars, clientVars, udpServerVars, udpClientVars,
               senderVars>>
vars == <<poolVars, callerVars, tcpVars, otherVars>>

\* ------------------------------------------------------------ ThreadPool
Live(w) == w <= num_threads

\* thread_pool.cpp:14-16: stop_(false), num_threads workers started.
PoolInit ==
    /\ num_threads \in 1..MaxThreads
    /\ tasks_ = << >>
    /\ queue_mutex_ = NoThread
    /\ stop_ = FALSE
    /\ wpc = [w \in Workers |-> IF w <= num_threads THEN "lock" ELSE "absent"]
    /\ wtask = [w \in Workers |-> NoTask]

\* thread_pool.cpp:21: std::unique_lock<std::mutex> lock(queue_mutex_)
WorkerLock(w) ==
    /\ wpc[w] = "lock"
    /\ queue_mutex_ = NoThread
    /\ queue_mutex_' = WorkerThread(w)
    /\ wpc' = [wpc EXCEPT ![w] = "locked"]
    /\ UNCHANGED <<num_threads, tasks_, stop_, wtask>>

\* thread_pool.cpp:24-26: the predicate of condition_.wait
WaitPredicate == stop_ \/ tasks_ # << >>

\* thread_pool.cpp:24: predicate false: wait releases the mutex and blocks.
WorkerWait(w) ==
    /\ wpc[w] = "locked"
    /\ ~WaitPredicate
    /\ queue_mutex_' = NoThread
    /\ wpc' = [wpc EXCEPT ![w] = "waiting"]
    /\ UNCHANGED <<num_threads, tasks_, stop_, wtask>>

\* A waiting worker may wake without a notification (std::condition_variable
\* permits spurious wake-ups); it then re-acquires the mutex and re-tests.
SpuriousWakeup(w) ==
    /\ wpc[w] = "waiting"
    /\ wpc' = [wpc EXCEPT ![w] = "lock"]
    /\ UNCHANGED <<num_threads, tasks_, queue_mutex_, stop_, wtask>>

\* A worker that leaves as soon as the pool is stopping, queue drained or not.
WorkerExitsOnStopOnly == stop_

\* thread_pool.cpp:29-31: stopping and nothing queued: the worker returns.
WorkerExitsHere == stop_ /\ tasks_ = << >>

WorkerExit(w) ==
    /\ wpc[w] = "locked"
    /\ WaitPredicate
    /\ WorkerExitsHere
    /\ queue_mutex_' = NoThread
    /\ wpc' = [wpc EXCEPT ![w] = "exited"]
    /\ UNCHANGED <<num_threads, tasks_, stop_, wtask>>

\* A worker that moves the front task out and keeps queue_mutex_ while it
\* runs the task.
WorkerTakeKeepsLock(w) ==
    /\ wpc[w] = "locked"
    /\ WaitPredicate
    /\ ~WorkerExitsHere
    /\ wtask' = [wtask EXCEPT ![w] = Head(tasks_)]
    /\ tasks_' = Tail(tasks_)
    /\ wpc' = [wpc EXCEPT ![w] = "run"]
    /\ UNCHANGED <<num_threads, stop_, queue_mutex_>>

\* thread_pool.cpp:34-36: move the front task out, pop, unlock.
WorkerTake(w) ==
    /\ wpc[w] = "locked"
    /\ WaitPredicate
    /\ ~WorkerExitsHere
    /\ wtask' = [wtask EXCEPT ![w] = Head(tasks_)]
    /\ tasks_' = Tail(tasks_)
    /\ queue_mutex_' = NoThread
    /\ wpc' = [wpc EXCEPT ![w] = "run"]
    /\ UNCHANGED <<num_threads, stop_>>

\* condition_.notify_one(): wakes one waiting worker, if there is one.
NotifyOne(pc) ==
    IF \E w \in Workers : pc[w] = "waiting"
    THEN \E w \in Workers :
            /\ pc[w] = "waiting"
            /\ wpc' = [pc EXCEPT ![w] = "lock"]
    ELSE wpc' = pc

\* condition_.notify_all(): wakes every waiting worker.
NotifyAll(pc) ==
    wpc' = [w \in Workers |-> IF pc[w] = "waiting" THEN "lock" ELSE pc[w]]

\* ------------------------------------------------- tasks of the pool spec
\* thread_pool.cpp:39: task() runs outside the lock. The queued lambda invokes
\* the packaged_task (thread_pool.h:136).
TaskInvoke(w) ==
    /\ wpc[w] = "run"
    /\ Len(wtask[w]) = 1
    /\ LET t == wtask[w][1] IN
        runs' = [runs EXCEPT ![t] = @ + 1]
    /\ wpc' = [wpc EXCEPT ![w] = "running"]
    /\ UNCHANGED <<num_threads, tasks_, queue_mutex_, stop_, wtask>>
    /\ UNCHANGED <<cpc, carg, nextTask, future, accepted, closer, tcpVars, otherVars>>

\* A worker whose thread ends when the body of its task throws.
TaskThrowEndsWorker(w) ==
    /\ wpc[w] = "running"
    /\ Len(wtask[w]) = 1
    /\ \E outcome \in {"value", "exception"} :
         /\ future' = [future EXCEPT ![wtask[w][1]] = outcome]
         /\ wpc' = [wpc EXCEPT ![w] = IF outcome = "exception" THEN "exited" ELSE "lock"]
    /\ wtask' = [wtask EXCEPT ![w] = NoTask]
    /\ UNCHANGED <<num_threads, tasks_, queue_mutex_, stop_>>
    /\ UNCHANGED <<cpc, carg, nextTask, runs, accepted, closer, tcpVars, otherVars>>

\* The body returns or throws; the packaged_task stores either in the shared
\* state of the future and the worker goes round its loop (thread_pool.cpp:17).
TaskReturn(w) ==
    /\ wpc[w] = "running"
    /\ Len(wtask[w]) = 1
    /\ \E outcome \in {"value", "exception"} :
         future' = [future EXCEPT ![wtask[w][1]] = outcome]
    /\ wpc' = [wpc EXCEPT ![w] = "lock"]
    /\ wtask' = [wtask EXCEPT ![w] = NoTask]
    /\ UNCHANGED <<num_threads, tasks_, queue_mutex_, stop_>>
    /\ UNCHANGED <<cpc, carg, nextTask, runs, accepted, closer, tcpVars, otherVars>>

\* ---------------------------------------------------------------- submit
\* thread_pool.h:121-125: the packaged_task and its future are made first.
SubmitCall(c) ==
    /\ cpc[c] = "idle"
    /\ nextTask <= MaxTasks
    /\ carg' = [carg EXCEPT ![c] = nextTask]
    /\ nextTask' = nextTask + 1
    /\ future' = [future EXCEPT ![nextTask] = "pending"]
    /\ cpc' = [cpc EXCEPT ![c] = "submit_lock"]
    /\ UNCHANGED <<poolVars, runs, accepted, closer, tcpVars, otherVars>>

\* thread_pool.h:128
SubmitLock(c) ==
    /\ cpc[c] = "submit_lock"
    /\ queue_mutex_ = NoThread
    /\ queue_mutex_' = CallerThread(c)
    /\ cpc' = [cpc EXCEPT ![c] = "submit_locked"]
    /\ UNCHANGED <<num_threads, tasks_, stop_, wpc, wtask>>
    /\ UNCHANGED <<carg, nextTask, future, runs, accepted, closer, tcpVars, otherVars>>

\* A submit() without the stopping test.
SubmitNeverRejects == FALSE

\* thread_pool.h:131: if (stop_)
SubmitRejects == stop_

\* thread_pool.h:131-133: throw std::runtime_error; the lock is released by
\* unwinding, the packaged_task is destroyed with the exception in flight.
SubmitThrow(c) ==
    /\ cpc[c] = "submit_locked"
    /\ SubmitRejects
    /\ queue_mutex_' = NoThread
    /\ future' = [future EXCEPT ![carg[c]] = "thrown"]
    /\ carg' = [carg EXCEPT ![c] = 0]
    /\ cpc' = [cpc EXCEPT ![c] = "idle"]
    /\ UNCHANGED <<num_threads, tasks_, stop_, wpc, wtask>>
    /\ UNCHANGED <<nextTask, runs, accepted, closer, tcpVars, otherVars>>

\* thread_pool.h:136-137: tasks_.emplace(...), unlock.
SubmitEnqueue(c) ==
    /\ cpc[c] = "submit_locked"
    /\ ~SubmitRejects
    /\ tasks_' = Append(tasks_, <<carg[c]>>)
    /\ accepted' = accepted \cup {carg[c]}
    /\ queue_mutex_' = NoThread
    /\ cpc' = [cpc EXCEPT ![c] = "submit_notify"]
    /\ UNCHANGED <<num_threads, stop_, wpc, wtask>>
    /\ UNCHANGED <<carg, nextTask, future, runs, closer, tcpVars, otherVars>>

\* A submit() that returns without notifying the condition variable.
SubmitForgetsNotify(c) ==
    /\ cpc[c] = "submit_notify"
    /\ carg' = [carg EXCEPT ![c] = 0]
    /\ cpc' = [cpc EXCEPT ![c] = "idle"]
    /\ UNCHANGED <<num_threads, tasks_, queue_mutex_, stop_, wpc, wtask>>
    /\ UNCHANGED <<nextTask, future, runs, accepted, closer, tcpVars, otherVars>>

\* thread_pool.h:140-141: condition_.notify_one(); return result.
SubmitNotify(c) ==
    /\ cpc[c] = "submit_notify"
    /\ NotifyOne(wpc)
    /\ carg' = [carg EXCEPT ![c] = 0]
    /\ cpc' = [cpc EXCEPT ![c] = "idle"]
    /\ UNCHANGED <<num_threads, tasks_, queue_mutex_, stop_, wtask>>
    /\ UNCHANGED <<nextTask, future, runs, accepted, closer, tcpVars, otherVars>>

\* -------------------------------------------------------------- shutdown
\* thread_pool.cpp:79
ShutdownLock(c) ==
    /\ cpc[c] = "idle"
    /\ queue_mutex_ = NoThread
    /\ queue_mutex_' = CallerThread(c)
    /\ cpc' = [cpc EXCEPT ![c] = "shutdown_locked"]
    /\ UNCHANGED <<num_threads, tasks_, stop_, wpc, wtask>>
    /\ UNCHANGED <<carg, nextTask, future, runs, accepted, closer, tcpVars, otherVars>>

\* A shutdown() without the test of stop_.
ShutdownNeverSkips == FALSE

\* thread_pool.cpp:81: if (stop_)
ShutdownSkips == stop_

\* thread_pool.cpp:81-83: already stopping: return at once.
ShutdownAlready(c) ==
    /\ cpc[c] = "shutdown_locked"
    /\ ShutdownSkips
    /\ queue_mutex_' = NoThread
    /\ cpc' = [cpc EXCEPT ![c] = "idle"]
    /\ UNCHANGED <<num_threads, tasks_, stop_, wpc, wtask>>
    /\ UNCHANGED <<carg, nextTask, future, runs, accepted, closer, tcpVars, otherVars>>

\* thread_pool.cpp:84-85: stop_ = true, unlock.
ShutdownSet(c) ==
    /\ cpc[c] = "shutdown_locked"
    /\ ~ShutdownSkips
    /\ stop_' = TRUE
    /\ queue_mutex_' = NoThread
    /\ closer' = "joining"
    /\ cpc' = [cpc EXCEPT ![c] = "shutdown_notify"]
    /\ UNCHANGED <<num_threads, tasks_, wpc, wtask>>
    /\ UNCHANGED <<carg, nextTask, future, runs, accepted, tcpVars, otherVars>>

\* thread_pool.cpp:88
ShutdownNotify(c) ==
    /\ cpc[c] = "shutdown_notify"
    /\ NotifyAll(wpc)
    /\ cpc' = [cpc EXCEPT ![c] = "shutdown_join"]
    /\ UNCHANGED <<num_threads, tasks_, queue_mutex_, stop_, wtask>>
    /\ UNCHANGED <<carg, nextTask, future, runs, accepted, closer, tcpVars, otherVars>>

\* thread_pool.cpp:91-95: join() of a worker returns once it has exited.
Joined(w) == wpc[w] \in {"exited", "absent"}

ShutdownJoin(c) ==
    /\ cpc[c] = "shutdown_join"
    /\ \A w \in Workers : Joined(w)
    /\ closer' = "returned"
    /\ cpc' = [cpc EXCEPT ![c] = "idle"]
    /\ UNCHANGED <<poolVars, carg, nextTask, future, runs, accepted, tcpVars, otherVars>>

\* ============================================================== TcpServer
\* ------------------------------------------------- the operating system
\* shutdown(fd, SHUT_RDWR); close(fd): the descriptor no longer refers to a
\* socket (on a descriptor that is already closed both calls fail with EBADF).
OsClose(tab, fd) == [tab EXCEPT ![fd] = 0]

\* The socket of connection c is still open on the server's side.
SocketOpen(c) == \E fd \in FDs : fdtab[fd] = c

\* The next chunk of a peer arrives on an open socket. (A chunk is what one
\* recv() returns, so the next one arrives once the last has been read.)
PeerSend(c) ==
    /\ c < nextConn
    /\ SocketOpen(c)
    /\ sent[c] = rcvd[c]
    /\ sent[c] < MaxMsgs
    /\ sent' = [sent EXCEPT ![c] = @ + 1]
    /\ UNCHANGED <<listening, fdtab, nextConn, rcvd>>
    /\ UNCHANGED <<poolVars, callerVars, otherVars, serverVars, mainVars, cbVars>>

\* tcp_server.cpp:48-94: the socket listens, running_ = true, the accept
\* thread is started, start() returns true.
StartOk ==
    /\ mpc = "idle"
    /\ ~running_
    /\ starts < MaxStarts
    /\ server_fd_' = 0
    /\ listening' = TRUE
    /\ running_' = TRUE
    /\ apc' = "loop"
    /\ starts' = starts + 1
    /\ UNCHANGED <<clients_, clients_mutex_, afd, aconn, hmsg>>
    /\ UNCHANGED <<fdtab, nextConn, sent, rcvd>>
    /\ UNCHANGED <<mpc, marg, mres, mtodo>>
    /\ UNCHANGED <<poolVars, callerVars, otherVars, cbVars>>

\* The call in progress returns mres to the controlling thread.
Return ==
    /\ mpc = "ret"
    /\ mpc' = "idle"
    /\ mres' = << >>
    /\ marg' = -1
    /\ UNCHANGED <<mtodo, starts>>
    /\ UNCHANGED <<poolVars, callerVars, otherVars, serverVars, osVars, cbVars>>

\* tcp_server.cpp:106
StopBegin ==
    /\ mpc = "idle"
    /\ running_
    /\ running_' = FALSE
    /\ mpc' = "stop_listen"
    /\ UNCHANGED <<server_fd_, clients_, clients_mutex_, apc, afd, aconn, hmsg>>
    /\ UNCHANGED <<marg, mres, mtodo, starts>>
    /\ UNCHANGED <<poolVars, callerVars, otherVars, osVars, cbVars>>

\* tcp_server.cpp:109-116: the listening socket is closed if server_fd_ >= 0;
\* accept_thread_.joinable() is false once the thread has been joined.
StopCloseListen ==
    /\ mpc = "stop_listen"
    /\ IF server_fd_ >= 0
       THEN listening' = FALSE /\ server_fd_' = -1
       ELSE UNCHANGED <<listening, server_fd_>>
    /\ mpc' = IF apc = "none" THEN "stop_lock" ELSE "stop_join"
    /\ UNCHANGED <<running_, clients_, clients_mutex_, apc, afd, aconn, hmsg>>
    /\ UNCHANGED <<fdtab, nextConn, sent, rcvd>>
    /\ UNCHANGED <<marg, mres, mtodo, starts>>
    /\ UNCHANGED <<poolVars, callerVars, otherVars, cbVars>>

\* tcp_server.cpp:116-118: join() returns once accept_loop has returned.
StopJoin ==
    /\ mpc = "stop_join"
    /\ apc = "exited"
    /\ apc' = "none"
    /\ mpc' = "stop_lock"
    /\ UNCHANGED <<running_, server_fd_, clients_, clients_mutex_, afd, aconn, hmsg>>
    /\ UNCHANGED <<marg, mres, mtodo, starts>>
    /\ UNCHANGED <<poolVars, callerVars, otherVars, osVars, cbVars>>

\* tcp_server.cpp:122
StopLock ==
    /\ mpc = "stop_lock"
    /\ clients_mutex_ = NoThread
    /\ clients_mutex_' = MainThread
    /\ mpc' = "stop_locked"
    /\ UNCHANGED <<running_, server_fd_, clients_, apc, afd, aconn, hmsg>>
    /\ UNCHANGED <<marg, mres, mtodo, starts>>
    /\ UNCHANGED <<poolVars, callerVars, otherVars, osVars, cbVars>>

\* A stop() that closes the registered descriptors and forgets clients_.clear().
StopKeepsRegistry ==
    /\ mpc = "stop_locked"
    /\ fdtab' = [fd \in FDs |-> IF clients_[fd] # 0 THEN 0 ELSE fdtab[fd]]
    /\ clients_mutex_' = NoThread
    /\ mpc' = "idle"
    /\ UNCHANGED <<running_, server_fd_, clients_, apc, afd, aconn, hmsg>>
    /\ UNCHANGED <<listening, nextConn, sent, rcvd>>
    /\ UNCHANGED <<marg, mres, mtodo, starts>>
    /\ UNCHANGED <<poolVars, callerVars, otherVars, cbVars>>

\* tcp_server.cpp:123-128: every registered descriptor is shut down and
\* closed, the registry is cleared, the lock released. stop() then returns
\* (tcp_server.cpp:130-131): nothing waits for the pool's tasks.
StopCloseClients ==
    /\ mpc = "stop_locked"
    /\ fdtab' = [fd \in FDs |-> IF clients_[fd] # 0 THEN 0 ELSE fdtab[fd]]
    /\ clients_' = [fd \in FDs |-> 0]
    /\ clients_mutex_' = NoThread
    /\ mpc' = "idle"
    /\ UNCHANGED <<running_, server_fd_, apc, afd, aconn, hmsg>>
    /\ UNCHANGED <<listening, nextConn, sent, rcvd>>
    /\ UNCHANGED <<marg, mres, mtodo, starts>>
    /\ UNCHANGED <<poolVars, callerVars, otherVars, cbVars>>

\* ---------------------------------------------------------- accept_loop
\* An accept_loop that goes back to accept() whatever running_ holds.
AcceptLoopIgnoresFlag ==
    /\ apc = "loop"
    /\ apc' = "accept"
    /\ UNCHANGED <<running_, server_fd_, clients_, clients_mutex_, afd, aconn, hmsg>>
    /\ UNCHANGED <<poolVars, callerVars, otherVars, osVars, mainVars, cbVars>>

\* tcp_server.cpp:141: while (running_)
AcceptLoopCheck ==
    /\ apc = "loop"
    /\ apc' = IF running_ THEN "accept" ELSE "exited"
    /\ UNCHANGED <<running_, server_fd_, clients_, clients_mutex_, afd, aconn, hmsg>>
    /\ UNCHANGED <<poolVars, callerVars, otherVars, osVars, mainVars, cbVars>>

\* tcp_server.cpp:146: accept() returns a new connection on a free descriptor.
AcceptConnection ==
    /\ apc = "accept"
    /\ listening
    /\ nextConn <= MaxConns
    /\ \E fd \in FDs :
         /\ fdtab[fd] = 0
         /\ fdtab' = [fdtab EXCEPT ![fd] = nextConn]
         /\ afd' = fd
    /\ aconn' = nextConn
    /\ nextConn' = nextConn + 1
    /\ apc' = "register"
    /\ UNCHANGED <<running_, server_fd_, clients_, clients_mutex_, hmsg>>
    /\ UNCHANGED <<listening, sent, rcvd>>
    /\ UNCHANGED <<poolVars, callerVars, otherVars, mainVars, cbVars>>

\* tcp_server.cpp:148-153: accept() fails once the listening socket is shut
\* down and closed; continue.
AcceptFail ==
    /\ apc = "accept"
    /\ ~listening
    /\ apc' = "loop"
    /\ UNCHANGED <<running_, server_fd_, clients_, clients_mutex_, afd, aconn, hmsg>>
    /\ UNCHANGED <<poolVars, callerVars, otherVars, osVars, mainVars, cbVars>>

\* An accept_loop that invokes the connection callback inside the block that
\* locks clients_mutex_.
AcceptRegisterKeepsLock ==
    /\ apc = "register"
    /\ clients_mutex_ = NoThread
    /\ clients_' = [clients_ EXCEPT ![afd] = aconn]
    /\ clients_mutex_' = AcceptThread
    /\ apc' = "cb"
    /\ UNCHANGED <<running_, server_fd_, afd, aconn, hmsg>>
    /\ UNCHANGED <<poolVars, callerVars, otherVars, osVars, mainVars, cbVars>>

\* tcp_server.cpp:161-171: clients_[client_fd] = addr under the lock, then the
\* connection callback is invoked on this thread.
AcceptRegister ==
    /\ apc = "register"
    /\ clients_mutex_ = NoThread
    /\ clients_' = [clients_ EXCEPT ![afd] = aconn]
    /\ apc' = "cb"
    /\ UNCHANGED <<running_, server_fd_, clients_mutex_, afd, aconn, hmsg>>
    /\ UNCHANGED <<poolVars, callerVars, otherVars, osVars, mainVars, cbVars>>

\* tcp_server.cpp:170-171: the connection callback returns.
AcceptCallbackReturn ==
    /\ apc = "cb"
    /\ apc' = "submit"
    /\ UNCHANGED <<running_, server_fd_, clients_, clients_mutex_, afd, aconn, hmsg>>
    /\ UNCHANGED <<poolVars, callerVars, otherVars, osVars, mainVars, cbVars>>

\* An accept loop whose registry block reaches down to the submit() call.
AcceptSubmitInsideRegistryBlock ==
    /\ apc = "submit"
    /\ queue_mutex_ = NoThread
    /\ clients_mutex_ = NoThread
    /\ queue_mutex_' = AcceptThread
    /\ clients_mutex_' = AcceptThread
    /\ apc' = "submit_locked"
    /\ UNCHANGED <<num_threads, tasks_, stop_, wpc, wtask>>
    /\ UNCHANGED <<running_, server_fd_, clients_, afd, aconn, hmsg>>
    /\ UNCHANGED <<callerVars, otherVars, osVars, mainVars, cbVars>>

\* tcp_server.cpp:174 -> thread_pool.h:128
AcceptSubmitLock ==
    /\ apc = "submit"
    /\ queue_mutex_ = NoThread
    /\ queue_mutex_' = AcceptThread
    /\ apc' = "submit_locked"
    /\ UNCHANGED <<num_threads, tasks_, stop_, wpc, wtask>>
    /\ UNCHANGED <<running_, server_fd_, clients_, clients_mutex_, afd, aconn, hmsg>>
    /\ UNCHANGED <<callerVars, otherVars, osVars, mainVars, cbVars>>

\* tcp_server.cpp:174-176 -> thread_pool.h:131-137: the lambda capturing
\* client_fd and client_addr_str is queued. (The server's pool is shut down
\* only by its destructor, so submit() does not throw here.)
AcceptSubmitEnqueue ==
    /\ apc = "submit_locked"
    /\ ~SubmitRejects
    /\ tasks_' = Append(tasks_, <<afd, aconn>>)
    /\ queue_mutex_' = NoThread
    /\ apc' = "notify"
    /\ UNCHANGED <<num_threads, stop_, wpc, wtask>>
    /\ UNCHANGED <<running_, server_fd_, clients_, clients_mutex_, afd, aconn, hmsg>>
    /\ UNCHANGED <<callerVars, otherVars, osVars, mainVars, cbVars>>

\* thread_pool.h:140, then round the loop (tcp_server.cpp:177).
AcceptNotify ==
    /\ apc = "notify"
    /\ NotifyOne(wpc)
    /\ apc' = "loop"
    /\ UNCHANGED <<num_threads, tasks_, queue_mutex_, stop_, wtask>>
    /\ UNCHANGED <<running_, server_fd_, clients_, clients_mutex_, afd, aconn, hmsg>>
    /\ UNCHANGED <<callerVars, otherVars, osVars, mainVars, cbVars>>

\* ------------------------------------------------ the pool specification
CallerInit ==
    /\ cpc = [c \in Callers |-> "idle"]
    /\ carg = [c \in Callers |-> 0]
    /\ nextTask = 1
    /\ future = [t \in TaskIds |-> "none"]
    /\ runs = [t \in TaskIds |-> 0]
    /\ accepted = {}
    /\ closer = "none"

WorkerStep(w) ==
    \/ WorkerLock(w)
    \/ WorkerWait(w)
    \/ SpuriousWakeup(w)
    \/ WorkerExit(w)
    \/ WorkerTake(w)

\* tcp_server.cpp:22-28: a server that was constructed and never started; no
\* connection exists.
TcpInit ==
    /\ running_ = FALSE
    /\ server_fd_ = -1
    /\ clients_ = [fd \in FDs |-> 0]
    /\ clients_mutex_ = NoThread
    /\ apc = "none"
    /\ afd = -1
    /\ aconn = 0
    /\ hmsg = [w \in Workers |-> << >>]
    /\ listening = FALSE
    /\ fdtab = [fd \in FDs |-> 0]
    /\ nextConn = 1
    /\ sent = [c \in Conns |-> 0]
    /\ rcvd = [c \in Conns |-> 0]
    /\ mpc = "idle"
    /\ marg = -1
    /\ mres = << >>
    /\ mtodo = << >>
    /\ starts = 0
    /\ disc = [c \in Conns |-> 0]

\* No peer of the TcpServer has stopped reading, no broadcast is in progress.
PeerInit ==
    /\ stalled = {}
    /\ bsnap = {}
    /\ bsent = [fd \in FDs |-> 0]
    /\ bfailed = {}

\* thread_pool.h:165: TcpClient::TcpClient(): socket_fd_(-1), connected_(false)
ClientInit ==
    /\ connected_ = FALSE
    /\ tc_socket_fd_ = -1
    /\ tc_rpc = "none"
    /\ tc_open = FALSE
    /\ tc_peer = "none"
    /\ tc_in = 0
    /\ tc_connects = 0
    /\ tc_true = 0
    /\ tc_false = 0
    /\ send_mutex_ = NoThread
    /\ xpc = "idle"
    /\ xres = << >>

\* tcp_server_example.cpp:236-242: UdpServer::UdpServer(): socket_fd_(-1),
\* running_(false), a pool of thread_pool_size workers.
UdpServerInit ==
    /\ us_running_ = FALSE
    /\ us_socket_fd_ = -1
    /\ us_rpc = "none"
    /\ us_msg = 0
    /\ us_open = FALSE
    /\ us_in = 0
    /\ us_starts = 0
    /\ us_next = 1
    /\ us_cb = [d \in 0..MaxMsgs |-> 0]

\* part_000:23-27: UdpClient::UdpClient(): socket_fd_(-1),
\* initialized_(false), receiving_(false)
UdpClientInit ==
    /\ initialized_ = FALSE
    /\ receiving_ = FALSE
    /\ uc_socket_fd_ = -1
    /\ uc_rpc = "none"
    /\ uc_open = FALSE
    /\ uc_in = FALSE
    /\ uc_inits = 0

\* The driving thread has made no call yet.
UserInit == upc = "idle" /\ ures = << >>

OtherInit == PeerInit /\ ClientInit /\ UdpServerInit /\ UdpClientInit /\ UserInit

PoolInitAll == PoolInit /\ CallerInit /\ TcpInit /\ OtherInit /\ component = "ThreadPool"

PoolNext ==
    \/ \E w \in Workers : WorkerStep(w) /\ UNCHANGED <<callerVars, otherVars, tcpVars>>
    \/ \E w \in Workers : TaskInvoke(w)
    \/ \E w \in Workers : TaskReturn(w)
    \/ \E c \in Callers : SubmitCall(c)
    \/ \E c \in Callers : SubmitLock(c)
    \/ \E c \in Callers : SubmitThrow(c)
    \/ \E c \in Callers : SubmitEnqueue(c)
    \/ \E c \in Callers : SubmitNotify(c)
    \/ \E c \in Callers : ShutdownLock(c)
    \/ \E c \in Callers : ShutdownAlready(c)
    \/ \E c \in Callers : ShutdownSet(c)
    \/ \E c \in Callers : ShutdownNotify(c)
    \/ \E c \in Callers : ShutdownJoin(c)

SpecPool == PoolInitAll /\ [][PoolNext]_vars

\* -------------------------------------------------------- handle_client
\* The task a worker took is the lambda of tcp_server.cpp:174-176.
HandlerFd(w) == wtask[w][1]
HandlerConn(w) == wtask[w][2]

\* tcp_server.cpp:191: while (running_), on entry and after every callback.
HandleLoopCheck(w) ==
    /\ wpc[w] \in {"run", "h_loop"}
    /\ Len(wtask[w]) = 2
    /\ wpc' = [wpc EXCEPT ![w] = IF running_ THEN "h_recv" ELSE "h_close"]
    /\ UNCHANGED <<num_threads, tasks_, queue_mutex_, stop_, wtask>>
    /\ UNCHANGED <<callerVars, otherVars, tcpVars>>

\* tcp_server.cpp:196, bytes_read > 0: recv() returns the next chunk of the
\* socket the descriptor refers to now.
HandleRecvData(w) ==
    /\ wpc[w] = "h_recv"
    /\ LET c == fdtab[HandlerFd(w)] IN
        /\ c # 0
        /\ rcvd[c] < sent[c]
        /\ rcvd' = [rcvd EXCEPT ![c] = @ + 1]
        /\ hmsg' = [hmsg EXCEPT ![w] = <<c, rcvd[c] + 1>>]
    /\ wpc' = [wpc EXCEPT ![w] = "h_got"]
    /\ UNCHANGED <<num_threads, tasks_, queue_mutex_, stop_, wtask>>
    /\ UNCHANGED <<running_, server_fd_, clients_, clients_mutex_, apc, afd, aconn>>
    /\ UNCHANGED <<listening, fdtab, nextConn, sent>>
    /\ UNCHANGED <<callerVars, otherVars, mainVars, cbVars>>

\* tcp_server.cpp:198-207: bytes_read <= 0, break. recv() returns 0 or -1 when
\* the descriptor was shut down and closed, and at any time the peer chooses
\* to close or reset the connection.
HandleRecvEnd(w) ==
    /\ wpc[w] = "h_recv"
    /\ wpc' = [wpc EXCEPT ![w] = "h_close"]
    /\ UNCHANGED <<num_threads, tasks_, queue_mutex_, stop_, wtask>>
    /\ UNCHANGED <<callerVars, otherVars, tcpVars>>

\* tcp_server.cpp:210-215: the message callback is invoked with (client_fd,
\* message) on the worker.
HandleMessageCallback(w) ==
    /\ wpc[w] = "h_got"
    /\ wpc' = [wpc EXCEPT ![w] = "h_msgcb"]
    /\ UNCHANGED <<num_threads, tasks_, queue_mutex_, stop_, wtask>>
    /\ UNCHANGED <<callerVars, otherVars, tcpVars>>

\* tcp_server.cpp:215-217: the message callback returns.
HandleMessageReturn(w) ==
    /\ wpc[w] = "h_msgcb"
    /\ hmsg' = [hmsg EXCEPT ![w] = << >>]
    /\ wpc' = [wpc EXCEPT ![w] = "h_loop"]
    /\ UNCHANGED <<num_threads, tasks_, queue_mutex_, stop_, wtask>>
    /\ UNCHANGED <<running_, server_fd_, clients_, clients_mutex_, apc, afd, aconn>>
    /\ UNCHANGED <<callerVars, otherVars, osVars, mainVars, cbVars>>

\* A close_client() that takes the lock and leaves the entry in the registry.
CloseClientKeepsEntry(w) ==
    /\ wpc[w] = "h_close"
    /\ clients_mutex_ = NoThread
    /\ wpc' = [wpc EXCEPT ![w] = "h_close2"]
    /\ UNCHANGED <<num_threads, tasks_, queue_mutex_, stop_, wtask>>
    /\ UNCHANGED <<callerVars, otherVars, tcpVars>>

\* tcp_server.cpp:229-232: clients_.erase(client_fd) under the lock.
CloseClientErase(w) ==
    /\ wpc[w] = "h_close"
    /\ clients_mutex_ = NoThread
    /\ clients_' = [clients_ EXCEPT ![HandlerFd(w)] = 0]
    /\ wpc' = [wpc EXCEPT ![w] = "h_close2"]
    /\ UNCHANGED <<num_threads, tasks_, queue_mutex_, stop_, wtask>>
    /\ UNCHANGED <<running_, server_fd_, clients_mutex_, apc, afd, aconn, hmsg>>
    /\ UNCHANGED <<callerVars, otherVars, osVars, mainVars, cbVars>>

\* A close_client() that erases the entry and leaves the descriptor open.
CloseClientLeavesOpen(w) ==
    /\ wpc[w] = "h_close2"
    /\ wpc' = [wpc EXCEPT ![w] = "h_disc"]
    /\ UNCHANGED <<num_threads, tasks_, queue_mutex_, stop_, wtask>>
    /\ UNCHANGED <<callerVars, otherVars, tcpVars>>

\* tcp_server.cpp:235-236: shutdown(client_fd), close(client_fd).
CloseClientClose(w) ==
    /\ wpc[w] = "h_close2"
    /\ fdtab' = OsClose(fdtab, HandlerFd(w))
    /\ wpc' = [wpc EXCEPT ![w] = "h_disc"]
    /\ UNCHANGED <<num_threads, tasks_, queue_mutex_, stop_, wtask>>
    /\ UNCHANGED <<listening, nextConn, sent, rcvd>>
    /\ UNCHANGED <<callerVars, otherVars, serverVars, mainVars, cbVars>>

\* tcp_server.cpp:239-241: the disconnect callback runs on the worker; then
\* handle_client and the task return and the worker goes round its loop.
CloseClientCallback(w) ==
    /\ wpc[w] = "h_disc"
    /\ disc' = [disc EXCEPT ![HandlerConn(w)] = @ + 1]
    /\ wpc' = [wpc EXCEPT ![w] = "lock"]
    /\ wtask' = [wtask EXCEPT ![w] = NoTask]
    /\ UNCHANGED <<num_threads, tasks_, queue_mutex_, stop_>>
    /\ UNCHANGED <<callerVars, otherVars, serverVars, osVars, mainVars>>

\* ------------------------------------------------------------ send_to()
\* tcp_server.cpp:251-256: the lookup fails; return false.
SendToAbsent(fd) ==
    /\ mpc = "idle"
    /\ clients_mutex_ = NoThread
    /\ clients_[fd] = 0
    /\ mpc' = "ret"
    /\ mres' = <<"send_to", "absent", "none", FALSE>>
    /\ UNCHANGED <<marg, mtodo, starts>>
    /\ UNCHANGED <<poolVars, callerVars, otherVars, serverVars, osVars, cbVars>>

\* tcp_server.cpp:251-258: the lookup succeeds and ::send is entered with
\* clients_mutex_ held.
SendToSend(fd) ==
    /\ mpc = "idle"
    /\ clients_mutex_ = NoThread
    /\ clients_[fd] # 0
    /\ clients_mutex_' = MainThread
    /\ mpc' = "send_io"
    /\ marg' = fd
    /\ UNCHANGED <<running_, server_fd_, clients_, apc, afd, aconn, hmsg>>
    /\ UNCHANGED <<mres, mtodo, starts>>
    /\ UNCHANGED <<poolVars, callerVars, otherVars, osVars, cbVars>>

\* What ::send can return on a descriptor: everything, a part, or -1; on a
\* closed descriptor only -1 (EBADF).
SendOutcomes(fd) ==
    IF fdtab[fd] = 0 THEN {"error"} ELSE {"full", "partial", "error"}

\* ::send on descriptor fd has to wait: the socket it refers to has a full
\* send buffer because the peer stopped reading.
SendBlocks(fd) == fdtab[fd] # 0 /\ fdtab[fd] \in stalled

\* A send_to() that reports success whenever some bytes were written.
SendResultAnyBytes(outcome) == outcome # "error"

\* tcp_server.cpp:259: bytes_sent == message.size()
SendResult(outcome) == outcome = "full"

\* A send_to() that drops the connection's entry when ::send did not take the
\* whole message.
SendToDropsOnFailure ==
    /\ mpc = "send_io"
    /\ ~SendBlocks(marg)
    /\ \E outcome \in SendOutcomes(marg) :
         /\ mres' = <<"send_to", "found", outcome, SendResult(outcome)>>
         /\ clients_' = IF SendResult(outcome) THEN clients_
                        ELSE [clients_ EXCEPT ![marg] = 0]
    /\ clients_mutex_' = NoThread
    /\ mpc' = "ret"
    /\ UNCHANGED <<running_, server_fd_, apc, afd, aconn, hmsg>>
    /\ UNCHANGED <<marg, mtodo, starts>>
    /\ UNCHANGED <<poolVars, callerVars, otherVars, osVars, cbVars>>

\* tcp_server.cpp:258-260: ::send returns (it may block for as long as the
\* peer does not read), the lock is released, the comparison is returned.
SendToReturn ==
    /\ mpc = "send_io"
    /\ ~SendBlocks(marg)
    /\ \E outcome \in SendOutcomes(marg) :
         mres' = <<"send_to", "found", outcome, SendResult(outcome)>>
    /\ clients_mutex_' = NoThread
    /\ mpc' = "ret"
    /\ UNCHANGED <<running_, server_fd_, clients_, apc, afd, aconn, hmsg>>
    /\ UNCHANGED <<marg, mtodo, starts>>
    /\ UNCHANGED <<poolVars, callerVars, otherVars, osVars, cbVars>>

\* ----------------------------------------------------------- broadcast()
\* The orders in which a range-for over an unordered_map holding the keys S
\* can visit them: every sequence that lists each key once.
IterationOrders(S) ==
    {o \in [1..Cardinality(S) -> S] : \A i, j \in 1..Cardinality(S) : o[i] = o[j] => i = j}

\* tcp_server.cpp:267-269: lock, begin the range-for over clients_.
BroadcastBegin ==
    /\ mpc = "idle"
    /\ clients_mutex_ = NoThread
    /\ clients_mutex_' = MainThread
    /\ mtodo' \in IterationOrders({fd \in FDs : clients_[fd] # 0})
    /\ bsnap' = {fd \in FDs : clients_[fd] # 0}
    /\ bsent' = [fd \in FDs |-> 0]
    /\ bfailed' = {}
    /\ mpc' = "bcast"
    /\ UNCHANGED <<running_, server_fd_, clients_, apc, afd, aconn, hmsg>>
    /\ UNCHANGED <<marg, mres, starts>>
    /\ UNCHANGED <<stalled, userVars, clientVars, udpServerVars, udpClientVars, senderVars>>
    /\ UNCHANGED <<poolVars, callerVars, osVars, cbVars>>

\* A broadcast that gives up at the first ::send that returns -1.
BroadcastStopsAtFailure ==
    /\ mpc = "bcast"
    /\ mtodo # << >>
    /\ ~SendBlocks(Head(mtodo))
    /\ \E outcome \in SendOutcomes(Head(mtodo)) :
         /\ bfailed' = IF outcome = "full" THEN bfailed ELSE bfailed \cup {Head(mtodo)}
         /\ mtodo' = IF outcome = "error" THEN << >> ELSE Tail(mtodo)
    /\ bsent' = [bsent EXCEPT ![Head(mtodo)] = @ + 1]
    /\ UNCHANGED <<mpc, marg, mres, starts, stalled, bsnap>>
    /\ UNCHANGED <<userVars, clientVars, udpServerVars, udpClientVars, senderVars>>
    /\ UNCHANGED <<poolVars, callerVars, serverVars, osVars, cbVars>>

\* tcp_server.cpp:270: ::send to the next entry returns (it waits while the
\* peer's buffer is full); the result is ignored.
BroadcastSend ==
    /\ mpc = "bcast"
    /\ mtodo # << >>
    /\ ~SendBlocks(Head(mtodo))
    /\ \E outcome \in SendOutcomes(Head(mtodo)) :
         bfailed' = IF outcome = "full" THEN bfailed ELSE bfailed \cup {Head(mtodo)}
    /\ bsent' = [bsent EXCEPT ![Head(mtodo)] = @ + 1]
    /\ mtodo' = Tail(mtodo)
    /\ UNCHANGED <<mpc, marg, mres, starts, stalled, bsnap>>
    /\ UNCHANGED <<userVars, clientVars, udpServerVars, udpClientVars, senderVars>>
    /\ UNCHANGED <<poolVars, callerVars, serverVars, osVars, cbVars>>

\* tcp_server.cpp:271-272: the loop ends, unlock, return (void).
BroadcastEnd ==
    /\ mpc = "bcast"
    /\ mtodo = << >>
    /\ clients_mutex_' = NoThread
    /\ mpc' = "idle"
    /\ bsnap' = {}
    /\ bsent' = [fd \in FDs |-> 0]
    /\ bfailed' = {}
    /\ UNCHANGED <<running_, server_fd_, clients_, apc, afd, aconn, hmsg>>
    /\ UNCHANGED <<marg, mres, mtodo, starts>>
    /\ UNCHANGED <<stalled, userVars, clientVars, udpServerVars, udpClientVars, senderVars>>
    /\ UNCHANGED <<poolVars, callerVars, osVars, cbVars>>

\* tcp_server.cpp:302-305: a copy of the registry taken under the lock.
GetClients ==
    /\ mpc = "idle"
    /\ clients_mutex_ = NoThread
    /\ mpc' = "ret"
    /\ mres' = <<"get_clients", {fd \in FDs : clients_[fd] # 0}>>
    /\ UNCHANGED <<marg, mtodo, starts>>
    /\ UNCHANGED <<poolVars, callerVars, otherVars, serverVars, osVars, cbVars>>

\* ---------------------------------------------- the server specification
TcpInitAll == PoolInit /\ CallerInit /\ TcpInit /\ OtherInit /\ component = "TcpServer"

TcpNext ==
    \/ \E w \in Workers : WorkerLock(w) /\ UNCHANGED <<callerVars, otherVars, tcpVars>>
    \/ \E w \in Workers : WorkerWait(w) /\ UNCHANGED <<callerVars, otherVars, tcpVars>>
    \/ \E w \in Workers : SpuriousWakeup(w) /\ UNCHANGED <<callerVars, otherVars, tcpVars>>
    \/ \E w \in Workers : WorkerTake(w) /\ UNCHANGED <<callerVars, otherVars, tcpVars>>
    \/ \E w \in Workers : HandleLoopCheck(w)
    \/ \E w \in Workers : HandleRecvData(w)
    \/ \E w \in Workers : HandleRecvEnd(w)
    \/ \E w \in Workers : HandleMessageCallback(w)
    \/ \E w \in Workers : HandleMessageReturn(w)
    \/ \E w \in Workers : CloseClientErase(w)
    \/ \E w \in Workers : CloseClientClose(w)
    \/ \E w \in Workers : CloseClientCallback(w)
    \/ AcceptLoopCheck
    \/ AcceptConnection
    \/ AcceptFail
    \/ AcceptRegister
    \/ AcceptCallbackReturn
    \/ AcceptSubmitLock
    \/ AcceptSubmitEnqueue
    \/ AcceptNotify
    \/ StartOk
    \/ Return
    \/ StopBegin
    \/ StopCloseListen
    \/ StopJoin
    \/ StopLock
    \/ StopCloseClients
    \/ \E fd \in FDs : SendToAbsent(fd)
    \/ \E fd \in FDs : SendToSend(fd)
    \/ SendToReturn
    \/ BroadcastBegin
    \/ BroadcastSend
    \/ BroadcastEnd
    \/ GetClients
    \/ \E c \in Conns : PeerSend(c)

SpecTcp == TcpInitAll /\ [][TcpNext]_vars

\* ------------------------------------------- a started server, left to run
\* The steps of worker w in a server: its pool loop and handle_client, except
\* the two that wait for someone else (recv() ending because the peer closes,
\* and the message callback returning).
TcpWorkerStep(w) ==
    \/ WorkerLock(w) /\ UNCHANGED <<callerVars, otherVars, tcpVars>>
    \/ WorkerWait(w) /\ UNCHANGED <<callerVars, otherVars, tcpVars>>
    \/ WorkerTake(w) /\ UNCHANGED <<callerVars, otherVars, tcpVars>>
    \/ HandleLoopCheck(w)
    \/ HandleRecvData(w)
    \/ HandleMessageCallback(w)
    \/ CloseClientErase(w)
    \/ CloseClientClose(w)
    \/ CloseClientCallback(w)

\* The steps of the accept thread once accept() has returned a connection.
AcceptThreadStep ==
    \/ AcceptLoopCheck
    \/ AcceptRegister
    \/ AcceptCallbackReturn
    \/ AcceptSubmitLock
    \/ AcceptSubmitEnqueue
    \/ AcceptNotify

\* The server is started once and neither stopped nor sent to; peers connect,
\* send and close as they please.
ServeNext ==
    \/ StartOk
    \/ AcceptConnection
    \/ AcceptThreadStep
    \/ \E w \in Workers : TcpWorkerStep(w)
    \/ \E w \in Workers : SpuriousWakeup(w) /\ UNCHANGED <<callerVars, otherVars, tcpVars>>
    \/ \E w \in Workers : HandleRecvEnd(w)
    \/ \E w \in Workers : HandleMessageReturn(w)
    \/ \E c \in Conns : PeerSend(c)

\* A thread of the server that can take a step again and again eventually
\* takes one: the scheduler is fair to runnable threads and no thread is
\* starved of a mutex that keeps being released. Nothing is assumed of the
\* peers or of how long a message callback runs.
FairSpecServe ==
    /\ TcpInitAll
    /\ [][ServeNext]_vars
    /\ SF_vars(AcceptThreadStep)
    /\ \A w \in Workers : SF_vars(TcpWorkerStep(w))

\* A chunk of connection c has arrived on its open socket and was not read.
Pending(c) == SocketOpen(c) /\ sent[c] > rcvd[c]

\* C6: the first chunk that arrives on any open connection is eventually read
\* for the message callback (or the connection is closed), whatever the other
\* connections' peers and callbacks do.
C6_NoConnectionStallsAnother ==
    \A c \in Conns : (Pending(c) /\ rcvd[c] = 0) ~> ~Pending(c)

\* ------------------------------------------------------- TcpServer claims
\* stop() is not in progress and the server is not running: stop() has
\* returned and start() has not been called since (or was never called).
Stopped == ~running_ /\ mpc \in {"idle", "ret", "send_io", "bcast"}

\* Connection c has been accepted.
Accepted(c) == c < nextConn

\* The receive-loop tasks of connection c that are queued or held by a worker.
QueuedFor(c) == {i \in 1..Len(tasks_) : tasks_[i][2] = c}
HeldFor(c) == {w \in Workers : Len(wtask[w]) = 2 /\ wtask[w][2] = c}

\* C3: chunks read from one connection reach the message callback in the
\* order read, each callback returning before the next is invoked, and no two
\* message callbacks for one connection identifier run at the same time.
C3_MessagesInOrder ==
    \A w, v \in Workers :
        (w # v /\ wpc[w] = "h_msgcb")
           => /\ ~(/\ wpc[v] \in {"h_got", "h_msgcb"}
                   /\ hmsg[v][1] = hmsg[w][1]
                   /\ hmsg[v][2] < hmsg[w][2])
              /\ ~(wpc[v] = "h_msgcb" /\ HandlerFd(v) = HandlerFd(w))

\* C4: the disconnect callback of a connection is invoked at most once, only
\* when the connection is no longer in the registry and its socket is closed,
\* and it has been invoked exactly once when the connection's receive loop
\* has ended.
C4_DisconnectOnce ==
    /\ [](\A c \in Conns :
            /\ disc[c] <= 1
            /\ (/\ Accepted(c)
                /\ ~(aconn = c /\ apc \in {"register", "cb", "submit", "submit_locked"})
                /\ QueuedFor(c) = {}
                /\ HeldFor(c) = {})
               => disc[c] = 1)
    /\ [][\A c \in Conns :
            disc'[c] # disc[c]
               => /\ disc[c] = 0
                  /\ \A fd \in FDs : clients_[fd] # c /\ fdtab[fd] # c]_vars

\* C4 witness: a connection that stop() closed has had its disconnect callback.
C4_Witness ==
    \E c \in Conns : disc[c] = 1 /\ ~running_ /\ rcvd[c] > 0

\* C5: once stop() has returned no message callback and no disconnect
\* callback is invoked.
C5_NoCallbackAfterStop ==
    [][Stopped =>
         /\ disc' = disc
         /\ \A w \in Workers : wpc'[w] = "h_msgcb" => wpc[w] = "h_msgcb"]_vars

\* C7: while the server is stopped the registry is empty, get_clients()
\* returns an empty map and send_to() returns false for every identifier.
C7_EmptyAfterStop ==
    Stopped =>
        /\ \A fd \in FDs : clients_[fd] = 0
        /\ mpc # "send_io"
        /\ (mpc = "ret" /\ mres[1] = "get_clients") => mres[2] = {}
        /\ (mpc = "ret" /\ mres[1] = "send_to") => mres[4] = FALSE

\* C7 witness: send_to() returned after a stop() that closed a connection
\* whose receive loop a worker still holds.
C7_Witness ==
    /\ Stopped
    /\ starts > 0
    /\ mpc = "ret"
    /\ mres[1] = "send_to"
    /\ \E w \in Workers : Len(wtask[w]) = 2

\* C8: every descriptor in the registry refers to the open socket of the
\* connection registered under it, and send_to() is never inside ::send on a
\* descriptor that is closed.
C8_RegistryLive ==
    /\ \A fd \in FDs : clients_[fd] # 0 => fdtab[fd] = clients_[fd]
    /\ mpc = "send_io" => fdtab[marg] # 0

\* C9: send_to() on an identifier that is not registered returns false
\* without an OS send; on a registered one it enters the OS send and returns
\* true exactly when the send took the whole payload.
C9_SendToResult ==
    /\ mpc = "send_io" => clients_[marg] # 0
    /\ (mpc = "ret" /\ mres[1] = "send_to") =>
          IF mres[2] = "absent"
          THEN mres[3] = "none" /\ mres[4] = FALSE
          ELSE mres[3] # "none" /\ (mres[4] <=> mres[3] = "full")

\* C9 witness: a partial send on a registered connection was reported as a
\* failure.
C9_Witness ==
    /\ mpc = "ret"
    /\ mres[1] = "send_to"
    /\ mres[2] = "found"
    /\ mres[3] = "partial"
    /\ mres[4] = FALSE

\* C10: while the connection callback of a connection runs, its identifier
\* is registered and no receive loop for it has been submitted; at most one
\* receive loop is ever submitted for it; and no worker is in its receive
\* loop before the connection callback has returned.
C10_AcceptOrder ==
    /\ apc = "cb" => clients_[afd] = aconn
    /\ \A c \in Conns :
          /\ Cardinality(QueuedFor(c)) + Cardinality(HeldFor(c)) <= 1
          /\ (aconn = c /\ apc \in {"register", "cb", "submit", "submit_locked"})
                => QueuedFor(c) = {} /\ HeldFor(c) = {} /\ disc[c] = 0

\* ------------------------------------------------------ ThreadPool claims
Finished(t) == future[t] \in {"value", "exception"}

\* The workers that have moved task t out of the queue and not finished it.
Holders(t) == {w \in Workers : wtask[w] = <<t>>}

\* C1: every task accepted by submit() is invoked at most once and is held by
\* at most one worker, no worker has exited while a task is still queued, and
\* once the shutdown() call that set stop_ has returned every accepted task
\* has been invoked exactly once and has finished.
C1_DrainBeforeShutdownReturns ==
    /\ \A t \in TaskIds : runs[t] <= 1 /\ Cardinality(Holders(t)) <= 1
    /\ \A t \in TaskIds : runs[t] = 1 => t \in accepted
    /\ \A w \in Workers : wpc[w] = "exited" => tasks_ = << >>
    /\ closer = "returned" =>
          \A t \in accepted : runs[t] = 1 /\ Finished(t)

\* C1 witness: a pool of the largest size whose shutdown() returned after
\* every submit() of the run was accepted and ran.
C1_Witness ==
    /\ closer = "returned"
    /\ num_threads = MaxThreads
    /\ accepted = TaskIds
    /\ \A t \in TaskIds : runs[t] = 1

\* C2: a submit() holding the queue lock while stop_ is set throws and leaves
\* the queue as it was; a task whose submit() threw is never queued and never
\* invoked; while stop_ is set no step makes the queue longer.
C2_SubmitAfterShutdownFails ==
    [][ /\ stop_ => Len(tasks_') <= Len(tasks_)
        /\ \A c \in Callers :
              (cpc[c] = "submit_locked" /\ stop_ /\ cpc'[c] # "submit_locked")
                 => /\ future'[carg[c]] = "thrown"
                    /\ tasks_' = tasks_
                    /\ accepted' = accepted
        /\ \A t \in TaskIds :
              future'[t] = "thrown"
                 => /\ runs'[t] = 0
                    /\ t \notin accepted'
                    /\ \A i \in 1..Len(tasks_') : tasks_'[i] # <<t>> ]_vars

\* C2 witness: a submit() threw while another task, accepted before the
\* shutdown, had been run.
C2_Witness ==
    \E t, u \in TaskIds :
        /\ future[t] = "thrown"
        /\ stop_
        /\ u \in accepted
        /\ runs[u] = 1

\* ============================================================== TcpClient
\* The line numbers of TcpClient are those of thread_pool.h, which carries
\* tcp_client.cpp from line 146 on.
notSenderVars == <<poolVars, callerVars, tcpVars, peerVars, component,
                   udpServerVars, udpClientVars>>
notClientVars == <<notSenderVars, senderVars>>

\* The call in progress returns ures to the driving thread.
UserReturn ==
    /\ upc = "ret"
    /\ upc' = "idle"
    /\ ures' = << >>
    /\ UNCHANGED <<poolVars, callerVars, tcpVars, peerVars, component>>
    /\ UNCHANGED <<clientVars, udpServerVars, udpClientVars, senderVars>>

\* ------------------------------------------------------------- connect()
\* A connect() without the test of connected_.
ConnectNeverRefused == FALSE

\* thread_pool.h:181: if (connected_)
ConnectRefused == connected_

\* thread_pool.h:181-183: if (connected_) return false.
ConnectAlready ==
    /\ component = "TcpClient"
    /\ upc = "idle"
    /\ ConnectRefused
    /\ upc' = "ret"
    /\ ures' = <<"connect", FALSE>>
    /\ UNCHANGED <<clientVars, notClientVars>>

\* thread_pool.h:186-211: socket() fails (socket_fd_ is left negative), or
\* inet_pton / ::connect fails: close(socket_fd_), socket_fd_ = -1; return
\* false.
ConnectFail ==
    /\ component = "TcpClient"
    /\ upc = "idle"
    /\ ~ConnectRefused
    /\ tc_socket_fd_' = -1
    /\ tc_open' = FALSE
    /\ upc' = "ret"
    /\ ures' = <<"connect", FALSE>>
    /\ UNCHANGED <<connected_, tc_rpc, tc_peer, tc_in, tc_connects, tc_true, tc_false>>
    /\ UNCHANGED notClientVars

\* thread_pool.h:186-213: the socket is connected, connected_ = true.
ConnectOk ==
    /\ component = "TcpClient"
    /\ upc = "idle"
    /\ ~ConnectRefused
    /\ tc_connects < MaxStarts
    /\ tc_socket_fd_' = 0
    /\ tc_open' = TRUE
    /\ tc_peer' = "open"
    /\ tc_in' = 0
    /\ connected_' = TRUE
    /\ tc_connects' = tc_connects + 1
    /\ tc_false' = 0
    /\ upc' = "c_cb"
    /\ UNCHANGED <<tc_rpc, tc_true, ures>>
    /\ UNCHANGED notClientVars

\* thread_pool.h:217-219: connection_callback_(true), on the calling thread.
ConnectCallback ==
    /\ upc = "c_cb"
    /\ tc_true' = tc_true + 1
    /\ upc' = "c_spawn"
    /\ UNCHANGED <<connected_, tc_socket_fd_, tc_rpc, tc_open, tc_peer, tc_in,
                   tc_connects, tc_false, ures>>
    /\ UNCHANGED notClientVars

\* thread_pool.h:222-224: receive_thread_ = std::thread(receive_loop); return
\* true.
ConnectSpawn ==
    /\ upc = "c_spawn"
    /\ tc_rpc = "none"
    /\ tc_rpc' = "loop"
    /\ upc' = "ret"
    /\ ures' = <<"connect", TRUE>>
    /\ UNCHANGED <<connected_, tc_socket_fd_, tc_open, tc_peer, tc_in,
                   tc_connects, tc_true, tc_false>>
    /\ UNCHANGED notClientVars

\* ------------------------------------------------------------ the server
\* The server sends a chunk (one is in flight at a time).
ClientPeerSend ==
    /\ tc_peer = "open"
    /\ tc_open
    /\ tc_in = 0
    /\ tc_in' = 1
    /\ UNCHANGED <<connected_, tc_socket_fd_, tc_rpc, tc_open, tc_peer,
                   tc_connects, tc_true, tc_false>>
    /\ UNCHANGED <<upc, ures, notClientVars>>

\* The server closes its end of the connection.
ClientPeerClose ==
    /\ tc_peer = "open"
    /\ tc_peer' = "closed"
    /\ UNCHANGED <<connected_, tc_socket_fd_, tc_rpc, tc_open, tc_in,
                   tc_connects, tc_true, tc_false>>
    /\ UNCHANGED <<upc, ures, notClientVars>>

\* --------------------------------------------------------- receive_loop()
\* thread_pool.h:322: while (connected_)
ClientLoopCheck ==
    /\ tc_rpc = "loop"
    /\ tc_rpc' = IF connected_ THEN "select" ELSE "after"
    /\ UNCHANGED <<connected_, tc_socket_fd_, tc_open, tc_peer, tc_in,
                   tc_connects, tc_true, tc_false>>
    /\ UNCHANGED <<upc, ures, notClientVars>>

\* What select() on socket_fd_ with a one-second timeout can do. On the open
\* socket: readable when a chunk or the end of the stream is waiting, a
\* time-out otherwise, and -1 when a signal interrupts it. Once disconnect()
\* has closed the socket the loop reads a descriptor that is closed (EBADF),
\* was shut down while select() slept (readable), or is -1. socket_fd_ is a
\* plain int that disconnect() sets to -1 without a lock, and FD_SET and
\* FD_ISSET of a negative descriptor are undefined: they touch a bit of the
\* set that select() ignores (any of the three results follows), or, where
\* the C library checks the descriptor, abort the process.
SelectOutcomes ==
    IF tc_open
    THEN IF tc_in > 0 \/ tc_peer = "closed"
         THEN {"readable", "fail"}
         ELSE {"timeout", "fail"}
    ELSE {"readable", "timeout", "fail", "abort"}

\* The process was aborted inside receive_loop: none of its threads runs.
ProcessAborted == tc_rpc = "aborted"

\* thread_pool.h:323-336: ret < 0 returns from receive_loop; a time-out goes
\* round the loop; a readable socket goes on to recv().
ClientSelect ==
    /\ tc_rpc = "select"
    /\ \E o \in SelectOutcomes :
         tc_rpc' = CASE o = "readable" -> "recv"
                     [] o = "timeout" -> "loop"
                     [] o = "fail" -> "ret_select"
                     [] o = "abort" -> "aborted"
    /\ UNCHANGED <<connected_, tc_socket_fd_, tc_open, tc_peer, tc_in,
                   tc_connects, tc_true, tc_false>>
    /\ UNCHANGED <<upc, ures, notClientVars>>

\* thread_pool.h:338-353, bytes_read > 0: a chunk is read and the message
\* callback is invoked on the receive thread.
ClientRecvData ==
    /\ tc_rpc = "recv"
    /\ tc_open
    /\ tc_in > 0
    /\ tc_in' = tc_in - 1
    /\ tc_rpc' = "msgcb"
    /\ UNCHANGED <<connected_, tc_socket_fd_, tc_open, tc_peer,
                   tc_connects, tc_true, tc_false>>
    /\ UNCHANGED <<upc, ures, notClientVars>>

\* thread_pool.h:342-349, bytes_read <= 0: the server closed (0), or recv()
\* failed (-1: reset by the peer, or the descriptor closed by disconnect()):
\* return from receive_loop, past the block of lines 361-366.
ClientRecvEnd ==
    /\ tc_rpc = "recv"
    /\ tc_rpc' = "ret_recv"
    /\ UNCHANGED <<connected_, tc_socket_fd_, tc_open, tc_peer, tc_in,
                   tc_connects, tc_true, tc_false>>
    /\ UNCHANGED <<upc, ures, notClientVars>>

\* thread_pool.h:354-357: the message callback returns; round the loop.
ClientMessageReturn ==
    /\ tc_rpc = "msgcb"
    /\ tc_rpc' = "loop"
    /\ UNCHANGED <<connected_, tc_socket_fd_, tc_open, tc_peer, tc_in,
                   tc_connects, tc_true, tc_false>>
    /\ UNCHANGED <<upc, ures, notClientVars>>

\* thread_pool.h:361-367: reached when the while condition was false:
\* if (connected_) { connected_ = false; connection_callback_(false); }
ClientLoopAfter ==
    /\ tc_rpc = "after"
    /\ IF connected_
       THEN connected_' = FALSE /\ tc_false' = tc_false + 1
       ELSE UNCHANGED <<connected_, tc_false>>
    /\ tc_rpc' = "exited"
    /\ UNCHANGED <<tc_socket_fd_, tc_open, tc_peer, tc_in, tc_connects, tc_true>>
    /\ UNCHANGED <<upc, ures, notClientVars>>

\* ---------------------------------------------------------- disconnect()
\* A disconnect() without the test of connected_.
DisconnectNeverSkips == FALSE

\* thread_pool.h:232: if (!connected_)
DisconnectSkips == ~connected_

\* thread_pool.h:232-234: not connected: return at once.
DisconnectNotConnected ==
    /\ component = "TcpClient"
    /\ upc = "idle"
    /\ DisconnectSkips
    /\ upc' = "ret"
    /\ ures' = <<"disconnect", FALSE>>
    /\ UNCHANGED <<clientVars, notClientVars>>

\* thread_pool.h:232-236: connected: connected_ = false.
DisconnectClear ==
    /\ component = "TcpClient"
    /\ upc = "idle"
    /\ ~DisconnectSkips
    /\ connected_' = FALSE
    /\ upc' = "d_close"
    /\ UNCHANGED <<tc_socket_fd_, tc_rpc, tc_open, tc_peer, tc_in,
                   tc_connects, tc_true, tc_false, ures>>
    /\ UNCHANGED notClientVars

\* thread_pool.h:239-243: shutdown, close, socket_fd_ = -1.
DisconnectClose ==
    /\ upc = "d_close"
    /\ IF tc_socket_fd_ >= 0
       THEN tc_open' = FALSE /\ tc_socket_fd_' = -1
       ELSE UNCHANGED <<tc_open, tc_socket_fd_>>
    /\ upc' = "d_join"
    /\ UNCHANGED <<connected_, tc_rpc, tc_peer, tc_in, tc_connects, tc_true,
                   tc_false, ures>>
    /\ UNCHANGED notClientVars

\* receive_loop has returned: from line 333 (select failed), from line 349
\* (recv returned 0 or -1) or by reaching its end.
ClientLoopReturned == tc_rpc \in {"ret_select", "ret_recv", "exited"}

\* thread_pool.h:246-248: join() returns once receive_loop has returned.
DisconnectJoin ==
    /\ upc = "d_join"
    /\ tc_rpc = "none" \/ ClientLoopReturned
    /\ tc_rpc' = "none"
    /\ upc' = "d_cb"
    /\ UNCHANGED <<connected_, tc_socket_fd_, tc_open, tc_peer, tc_in,
                   tc_connects, tc_true, tc_false, ures>>
    /\ UNCHANGED notClientVars

\* thread_pool.h:253-256: connection_callback_(false) on the calling thread;
\* return.
DisconnectCallback ==
    /\ upc = "d_cb"
    /\ tc_false' = tc_false + 1
    /\ upc' = "ret"
    /\ ures' = <<"disconnect", TRUE>>
    /\ UNCHANGED <<connected_, tc_socket_fd_, tc_rpc, tc_open, tc_peer, tc_in,
                   tc_connects, tc_true>>
    /\ UNCHANGED notClientVars

\* ----------------------------------------------------- TcpClient::send()
\* thread_pool.h:265: if (!connected_)
ClientSendRefused == ~connected_

\* thread_pool.h:265-267: if (!connected_) return false.
ClientSendNotConnected ==
    /\ component = "TcpClient"
    /\ upc = "idle"
    /\ ClientSendRefused
    /\ upc' = "ret"
    /\ ures' = <<"send", FALSE, "none">>
    /\ UNCHANGED <<clientVars, notClientVars>>

\* thread_pool.h:265: connected_ is set; go on to line 270.
ClientSendCheck ==
    /\ component = "TcpClient"
    /\ upc = "idle"
    /\ ~ClientSendRefused
    /\ upc' = "s_lock"
    /\ UNCHANGED <<ures, clientVars, notClientVars>>

\* A send() that goes into ::send without taking send_mutex_.
ClientSendUnlocked ==
    /\ upc = "s_lock"
    /\ upc' = "s_io"
    /\ send_mutex_' = UserThread
    /\ UNCHANGED <<ures, xpc, xres, clientVars, notSenderVars>>

\* thread_pool.h:270-271: lock send_mutex_, enter ::send on socket_fd_.
ClientSendIo ==
    /\ upc = "s_lock"
    /\ send_mutex_ = NoThread
    /\ send_mutex_' = UserThread
    /\ upc' = "s_io"
    /\ UNCHANGED <<ures, xpc, xres, clientVars, notSenderVars>>

\* What ::send can return on the client's socket: everything, a part, or -1.
\* After the server closed its end the first ::send still succeeds (the data
\* is queued and answered by a reset). socket_fd_ is a plain int that
\* disconnect() and connect() write without a lock: a ::send that races with
\* them acts on the closed descriptor, on -1 or on the next connection's.
ClientSendOutcomes ==
    IF tc_open THEN {"full", "partial", "error"} ELSE {"error"}

\* thread_pool.h:273-278: -1 returns false, otherwise the comparison with
\* message.size() is returned; the lock_guard releases send_mutex_.
ClientSendReturn ==
    /\ upc = "s_io"
    /\ \E outcome \in ClientSendOutcomes :
         ures' = <<"send", SendResult(outcome), outcome>>
    /\ send_mutex_' = NoThread
    /\ upc' = "ret"
    /\ UNCHANGED <<xpc, xres, clientVars, notSenderVars>>

\* ------------------------------------- send() called from a second thread
\* The second thread's send() has returned and it is about to call again.
OtherReturn ==
    /\ ~ProcessAborted
    /\ xpc = "ret"
    /\ xpc' = "idle"
    /\ xres' = << >>
    /\ UNCHANGED <<send_mutex_, upc, ures, clientVars, notSenderVars>>

\* thread_pool.h:265-267: if (!connected_) return false.
OtherSendNotConnected ==
    /\ ~ProcessAborted
    /\ component = "TcpClient"
    /\ xpc = "idle"
    /\ ClientSendRefused
    /\ xpc' = "ret"
    /\ xres' = <<"send", FALSE, "none">>
    /\ UNCHANGED <<send_mutex_, upc, ures, clientVars, notSenderVars>>

\* thread_pool.h:265: connected_ is set; go on to line 270.
OtherSendCheck ==
    /\ ~ProcessAborted
    /\ component = "TcpClient"
    /\ xpc = "idle"
    /\ ~ClientSendRefused
    /\ xpc' = "s_lock"
    /\ UNCHANGED <<send_mutex_, xres, upc, ures, clientVars, notSenderVars>>

\* thread_pool.h:270-271: lock send_mutex_, enter ::send on socket_fd_.
OtherSendIo ==
    /\ ~ProcessAborted
    /\ xpc = "s_lock"
    /\ send_mutex_ = NoThread
    /\ send_mutex_' = OtherThread
    /\ xpc' = "s_io"
    /\ UNCHANGED <<xres, upc, ures, clientVars, notSenderVars>>

\* thread_pool.h:273-278: ::send returns, the result is returned, the
\* lock_guard releases send_mutex_.
OtherSendReturn ==
    /\ ~ProcessAborted
    /\ xpc = "s_io"
    /\ \E outcome \in ClientSendOutcomes :
         xres' = <<"send", SendResult(outcome), outcome>>
    /\ send_mutex_' = NoThread
    /\ xpc' = "ret"
    /\ UNCHANGED <<upc, ures, clientVars, notSenderVars>>

ClientThreadStep ==
    \/ ClientLoopCheck
    \/ ClientSelect
    \/ ClientRecvData
    \/ ClientRecvEnd
    \/ ClientMessageReturn
    \/ ClientLoopAfter

ClientNext ==
    \/ ConnectAlready
    \/ ConnectFail
    \/ ConnectOk
    \/ ConnectCallback
    \/ ConnectSpawn
    \/ ClientPeerSend
    \/ ClientPeerClose
    \/ ClientThreadStep
    \/ DisconnectNotConnected
    \/ DisconnectClear
    \/ DisconnectClose
    \/ DisconnectJoin
    \/ DisconnectCallback
    \/ ClientSendNotConnected
    \/ ClientSendCheck
    \/ ClientSendIo
    \/ ClientSendReturn
    \/ OtherReturn
    \/ OtherSendNotConnected
    \/ OtherSendCheck
    \/ OtherSendIo
    \/ OtherSendReturn

\* ============================================================== UdpServer
\* The line numbers of UdpServer are those of tcp_server_example.cpp, which
\* carries udp_server.cpp from line 213 on.
notUdpServerVars == <<callerVars, tcpVars, peerVars, component, clientVars,
                      udpClientVars, senderVars>>

\* tcp_server_example.cpp:258-260: if (running_) return false.
UdpStartAlready ==
    /\ component = "UdpServer"
    /\ upc = "idle"
    /\ us_running_
    /\ upc' = "ret"
    /\ ures' = <<"start", FALSE>>
    /\ UNCHANGED <<poolVars, udpServerVars, notUdpServerVars>>

\* tcp_server_example.cpp:263-293: socket() fails (socket_fd_ is left
\* negative), or setsockopt / inet_pton / bind fails: ::close(socket_fd_),
\* socket_fd_ keeps the closed descriptor's number; return false.
UdpStartFail ==
    /\ component = "UdpServer"
    /\ upc = "idle"
    /\ ~us_running_
    /\ \E stage \in {"socket", "setsockopt", "inet_pton", "bind"} :
         us_socket_fd_' = IF stage = "socket" THEN -1 ELSE 0
    /\ us_open' = FALSE
    /\ upc' = "ret"
    /\ ures' = <<"start", FALSE>>
    /\ UNCHANGED <<us_running_, us_rpc, us_msg, us_in, us_starts,
                   us_next, us_cb>>
    /\ UNCHANGED <<poolVars, notUdpServerVars>>

\* tcp_server_example.cpp:263-302: the socket is bound, running_ = true, the
\* receive thread is started; return true.
UdpStartOk ==
    /\ component = "UdpServer"
    /\ upc = "idle"
    /\ ~us_running_
    /\ us_starts < MaxStarts
    /\ us_rpc = "none"
    /\ us_socket_fd_' = 0
    /\ us_open' = TRUE
    /\ us_in' = 0
    /\ us_running_' = TRUE
    /\ us_rpc' = "loop"
    /\ us_starts' = us_starts + 1
    /\ upc' = "ret"
    /\ ures' = <<"start", TRUE>>
    /\ UNCHANGED <<us_msg, us_next, us_cb>>
    /\ UNCHANGED <<poolVars, notUdpServerVars>>

\* tcp_server_example.cpp:310-312: if (!running_) return.
UdpStopNotRunning ==
    /\ component = "UdpServer"
    /\ upc = "idle"
    /\ ~us_running_
    /\ upc' = "ret"
    /\ ures' = <<"stop", FALSE>>
    /\ UNCHANGED <<poolVars, udpServerVars, notUdpServerVars>>

\* tcp_server_example.cpp:310-314: running_ = false.
UdpStopClear ==
    /\ component = "UdpServer"
    /\ upc = "idle"
    /\ us_running_
    /\ us_running_' = FALSE
    /\ upc' = "u_close"
    /\ UNCHANGED <<us_socket_fd_, us_rpc, us_msg, us_open, us_in,
                   us_starts, us_next, us_cb, ures>>
    /\ UNCHANGED <<poolVars, notUdpServerVars>>

\* tcp_server_example.cpp:317-321: shutdown, close, socket_fd_ = -1.
UdpStopClose ==
    /\ upc = "u_close"
    /\ IF us_socket_fd_ >= 0
       THEN us_open' = FALSE /\ us_socket_fd_' = -1
       ELSE UNCHANGED <<us_open, us_socket_fd_>>
    /\ upc' = "u_join"
    /\ UNCHANGED <<us_running_, us_rpc, us_msg, us_in, us_starts, us_next,
                   us_cb, ures>>
    /\ UNCHANGED <<poolVars, notUdpServerVars>>

\* tcp_server_example.cpp:324-328: join() returns once receive_loop has
\* returned; stop() returns.
UdpStopJoin ==
    /\ upc = "u_join"
    /\ us_rpc \in {"none", "exited"}
    /\ us_rpc' = "none"
    /\ upc' = "ret"
    /\ ures' = <<"stop", TRUE>>
    /\ UNCHANGED <<us_running_, us_socket_fd_, us_msg, us_open, us_in,
                   us_starts, us_next, us_cb>>
    /\ UNCHANGED <<poolVars, notUdpServerVars>>

\* A datagram arrives at the bound socket (one waits at a time).
UdpPeerSend ==
    /\ us_open
    /\ us_in = 0
    /\ us_next <= MaxMsgs
    /\ us_in' = us_next
    /\ us_next' = us_next + 1
    /\ UNCHANGED <<us_running_, us_socket_fd_, us_rpc, us_msg, us_open, us_starts, us_cb>>
    /\ UNCHANGED <<upc, ures, poolVars, notUdpServerVars>>

\* ------------------------------------------- UdpServer::receive_loop()
\* tcp_server_example.cpp:341: while (running_)
UdpLoopCheck ==
    /\ us_rpc = "loop"
    /\ us_rpc' = IF us_running_ THEN "recvfrom" ELSE "exited"
    /\ UNCHANGED <<us_running_, us_socket_fd_, us_msg, us_open, us_in,
                   us_starts, us_next, us_cb>>
    /\ UNCHANGED <<upc, ures, poolVars, notUdpServerVars>>

\* tcp_server_example.cpp:349-350, bytes_read >= 0: recvfrom() returns the
\* waiting datagram.
UdpRecvDatagram ==
    /\ us_rpc = "recvfrom"
    /\ us_open
    /\ us_in # 0
    /\ us_msg' = us_in
    /\ us_in' = 0
    /\ us_rpc' = "submit"
    /\ UNCHANGED <<us_running_, us_socket_fd_, us_open, us_starts,
                   us_next, us_cb>>
    /\ UNCHANGED <<upc, ures, poolVars, notUdpServerVars>>

\* tcp_server_example.cpp:349-357: stop() has shut the socket down and closed
\* it. A recvfrom() that was blocked when shutdown() ran returns 0, which the
\* loop takes for an empty datagram; one entered after close() returns -1
\* (EBADF) and the loop continues.
UdpRecvShutdown ==
    /\ us_rpc = "recvfrom"
    /\ ~us_open
    /\ \/ us_msg' = 0 /\ us_rpc' = "submit"
       \/ us_rpc' = "loop" /\ UNCHANGED us_msg
    /\ UNCHANGED <<us_running_, us_socket_fd_, us_open, us_in, us_starts,
                   us_next, us_cb>>
    /\ UNCHANGED <<upc, ures, poolVars, notUdpServerVars>>

\* A receive_loop that invokes the message callback itself instead of
\* submitting the datagram to the pool.
UdpCallbackInline ==
    /\ us_rpc = "submit"
    /\ us_cb' = [us_cb EXCEPT ![us_msg] = @ + 1]
    /\ us_rpc' = "loop"
    /\ UNCHANGED <<us_running_, us_socket_fd_, us_msg, us_open, us_in,
                   us_starts, us_next>>
    /\ UNCHANGED <<upc, ures, poolVars, notUdpServerVars>>

\* tcp_server_example.cpp:373 -> thread_pool.h:128
UdpSubmitLock ==
    /\ us_rpc = "submit"
    /\ queue_mutex_ = NoThread
    /\ queue_mutex_' = <<"receive">>
    /\ us_rpc' = "submit_locked"
    /\ UNCHANGED <<num_threads, tasks_, stop_, wpc, wtask>>
    /\ UNCHANGED <<us_running_, us_socket_fd_, us_msg, us_open, us_in,
                   us_starts, us_next, us_cb>>
    /\ UNCHANGED <<upc, ures, notUdpServerVars>>

\* tcp_server_example.cpp:373-375 -> thread_pool.h:131-137: the lambda that
\* captured the sender and the message is queued. (The server's pool is shut
\* down only by its destructor, so submit() does not throw here.)
UdpSubmitEnqueue ==
    /\ us_rpc = "submit_locked"
    /\ ~SubmitRejects
    /\ tasks_' = Append(tasks_, <<"udp", "sender", us_msg>>)
    /\ queue_mutex_' = NoThread
    /\ us_rpc' = "notify"
    /\ UNCHANGED <<num_threads, stop_, wpc, wtask>>
    /\ UNCHANGED <<us_running_, us_socket_fd_, us_msg, us_open, us_in,
                   us_starts, us_next, us_cb>>
    /\ UNCHANGED <<upc, ures, notUdpServerVars>>

\* thread_pool.h:140, then round the loop (tcp_server_example.cpp:376).
UdpSubmitNotify ==
    /\ us_rpc = "notify"
    /\ NotifyOne(wpc)
    /\ us_rpc' = "loop"
    /\ UNCHANGED <<num_threads, tasks_, queue_mutex_, stop_, wtask>>
    /\ UNCHANGED <<us_running_, us_socket_fd_, us_msg, us_open, us_in,
                   us_starts, us_next, us_cb>>
    /\ UNCHANGED <<upc, ures, notUdpServerVars>>

\* tcp_server_example.cpp:387-392: process_message on a worker invokes the
\* message callback with the sender and the message.
UdpProcessMessage(w) ==
    /\ wpc[w] = "run"
    /\ Len(wtask[w]) = 3
    /\ us_cb' = [us_cb EXCEPT ![wtask[w][3]] = @ + 1]
    /\ wpc' = [wpc EXCEPT ![w] = "u_msgcb"]
    /\ UNCHANGED <<num_threads, tasks_, queue_mutex_, stop_, wtask>>
    /\ UNCHANGED <<us_running_, us_socket_fd_, us_rpc, us_msg, us_open, us_in, us_starts, us_next>>
    /\ UNCHANGED <<upc, ures, notUdpServerVars>>

\* The message callback and the task return; the worker goes round its loop.
UdpProcessReturn(w) ==
    /\ wpc[w] = "u_msgcb"
    /\ wpc' = [wpc EXCEPT ![w] = "lock"]
    /\ wtask' = [wtask EXCEPT ![w] = NoTask]
    /\ UNCHANGED <<num_threads, tasks_, queue_mutex_, stop_>>
    /\ UNCHANGED <<upc, ures, udpServerVars, notUdpServerVars>>

\* ------------------------------------------------- UdpServer::send_to()
\* tcp_server_example.cpp:402: if (!running_)
UdpSendRefused == ~us_running_

\* tcp_server_example.cpp:402-404: not running: return false.
UdpSendToNotRunning ==
    /\ component = "UdpServer"
    /\ upc = "idle"
    /\ UdpSendRefused
    /\ upc' = "ret"
    /\ ures' = <<"send_to", FALSE, "none">>
    /\ UNCHANGED <<poolVars, udpServerVars, notUdpServerVars>>

\* tcp_server_example.cpp:412-415: inet_pton rejects the address: return
\* false.
UdpSendToBadAddress ==
    /\ component = "UdpServer"
    /\ upc = "idle"
    /\ ~UdpSendRefused
    /\ upc' = "ret"
    /\ ures' = <<"send_to", FALSE, "none">>
    /\ UNCHANGED <<poolVars, udpServerVars, notUdpServerVars>>

\* tcp_server_example.cpp:418: sendto() on socket_fd_ is entered.
UdpSendToIo ==
    /\ component = "UdpServer"
    /\ upc = "idle"
    /\ ~UdpSendRefused
    /\ upc' = "us_io"
    /\ UNCHANGED <<ures, poolVars, udpServerVars, notUdpServerVars>>

\* What sendto() can return for a datagram: all of it, or -1 (always -1 on a
\* socket that is closed).
DatagramSendOutcomes(open) == IF open THEN {"full", "error"} ELSE {"error"}

\* tcp_server_example.cpp:421-426: -1 returns false, otherwise the comparison
\* with message.size().
UdpSendToReturn ==
    /\ upc = "us_io"
    /\ \E outcome \in DatagramSendOutcomes(us_open) :
         ures' = <<"send_to", SendResult(outcome), outcome>>
    /\ upc' = "ret"
    /\ UNCHANGED <<poolVars, udpServerVars, notUdpServerVars>>

UdpReceiveThreadStep ==
    \/ UdpLoopCheck
    \/ UdpRecvDatagram
    \/ UdpRecvShutdown
    \/ UdpSubmitLock
    \/ UdpSubmitEnqueue
    \/ UdpSubmitNotify

UdpWorkerStep(w) ==
    \/ UdpProcessMessage(w)
    \/ UdpProcessReturn(w)

UdpServerNext ==
    \/ UdpStartAlready
    \/ UdpStartFail
    \/ UdpStartOk
    \/ UdpStopNotRunning
    \/ UdpStopClear
    \/ UdpStopClose
    \/ UdpStopJoin
    \/ UdpSendToNotRunning
    \/ UdpSendToBadAddress
    \/ UdpSendToIo
    \/ UdpSendToReturn
    \/ UdpPeerSend
    \/ UdpReceiveThreadStep
    \/ \E w \in Workers : UdpWorkerStep(w)

\* ============================================================== UdpClient
\* The line numbers of UdpClient are those of unnamed/part_000
\* (udp_client.cpp).
notUdpClientVars == <<poolVars, callerVars, tcpVars, peerVars, component,
                      clientVars, udpServerVars, senderVars>>

\* part_000:43-45: if (initialized_) return false.
UdpInitAlready ==
    /\ component = "UdpClient"
    /\ upc = "idle"
    /\ initialized_
    /\ upc' = "ret"
    /\ ures' = <<"init", FALSE>>
    /\ UNCHANGED <<udpClientVars, notUdpClientVars>>

\* part_000:48-66: socket() fails (socket_fd_ is left negative) or bind
\* fails: ::close(socket_fd_), socket_fd_ = -1; return false.
UdpInitFail ==
    /\ component = "UdpClient"
    /\ upc = "idle"
    /\ ~initialized_
    /\ uc_socket_fd_' = -1
    /\ uc_open' = FALSE
    /\ upc' = "ret"
    /\ ures' = <<"init", FALSE>>
    /\ UNCHANGED <<initialized_, receiving_, uc_rpc, uc_in, uc_inits>>
    /\ UNCHANGED notUdpClientVars

\* part_000:48-73: the socket exists, initialized_ = true; return true.
UdpInitOk ==
    /\ component = "UdpClient"
    /\ upc = "idle"
    /\ ~initialized_
    /\ uc_inits < MaxStarts
    /\ uc_socket_fd_' = 0
    /\ uc_open' = TRUE
    /\ uc_in' = FALSE
    /\ initialized_' = TRUE
    /\ uc_inits' = uc_inits + 1
    /\ upc' = "ret"
    /\ ures' = <<"init", TRUE>>
    /\ UNCHANGED <<receiving_, uc_rpc>>
    /\ UNCHANGED notUdpClientVars

\* part_000:143-147: start_receiving() returns at once when the client is not
\* initialized or already receiving.
UdpStartReceivingSkip ==
    /\ component = "UdpClient"
    /\ upc = "idle"
    /\ ~initialized_ \/ receiving_
    /\ upc' = "ret"
    /\ ures' = <<"start_receiving", FALSE>>
    /\ UNCHANGED <<udpClientVars, notUdpClientVars>>

\* part_000:149-151: receiving_ = true, the receive thread is started.
UdpStartReceiving ==
    /\ component = "UdpClient"
    /\ upc = "idle"
    /\ initialized_ /\ ~receiving_
    /\ uc_rpc = "none"
    /\ receiving_' = TRUE
    /\ uc_rpc' = "loop"
    /\ upc' = "ret"
    /\ ures' = <<"start_receiving", TRUE>>
    /\ UNCHANGED <<initialized_, uc_socket_fd_, uc_open, uc_in, uc_inits>>
    /\ UNCHANGED notUdpClientVars

\* part_000:159-161: stop_receiving(), called by the program or as the first
\* statement of close() (part_000:81): not receiving: return at once.
UdpStopReceivingSkip(call) ==
    /\ component = "UdpClient"
    /\ upc = "idle"
    /\ ~receiving_
    /\ IF call = "close"
       THEN upc' = "x_check" /\ UNCHANGED ures
       ELSE upc' = "ret" /\ ures' = <<"stop_receiving", FALSE>>
    /\ UNCHANGED <<udpClientVars, notUdpClientVars>>

\* A stop_receiving() that also gives up the socket and the initialized flag.
UdpStopReceivingCloses(call) ==
    /\ component = "UdpClient"
    /\ upc = "idle"
    /\ receiving_
    /\ receiving_' = FALSE
    /\ initialized_' = FALSE
    /\ uc_open' = FALSE
    /\ uc_socket_fd_' = -1
    /\ upc' = IF call = "close" THEN "x_join" ELSE "sr_join"
    /\ UNCHANGED <<uc_rpc, uc_in, uc_inits, ures>>
    /\ UNCHANGED notUdpClientVars

\* part_000:159-163: receiving_ = false.
UdpStopReceivingClear(call) ==
    /\ component = "UdpClient"
    /\ upc = "idle"
    /\ receiving_
    /\ receiving_' = FALSE
    /\ upc' = IF call = "close" THEN "x_join" ELSE "sr_join"
    /\ UNCHANGED <<initialized_, uc_socket_fd_, uc_rpc, uc_open, uc_in, uc_inits, ures>>
    /\ UNCHANGED notUdpClientVars

\* part_000:166-170: join() returns once receive_loop has returned.
UdpStopReceivingJoin ==
    /\ upc \in {"sr_join", "x_join"}
    /\ uc_rpc \in {"none", "exited"}
    /\ uc_rpc' = "none"
    /\ IF upc = "x_join"
       THEN upc' = "x_check" /\ UNCHANGED ures
       ELSE upc' = "ret" /\ ures' = <<"stop_receiving", TRUE>>
    /\ UNCHANGED <<initialized_, receiving_, uc_socket_fd_, uc_open, uc_in, uc_inits>>
    /\ UNCHANGED notUdpClientVars

\* part_000:84-86: close() after stop_receiving(): if (!initialized_) return.
UdpCloseNotInitialized ==
    /\ upc = "x_check"
    /\ ~initialized_
    /\ upc' = "ret"
    /\ ures' = <<"close", FALSE>>
    /\ UNCHANGED <<udpClientVars, notUdpClientVars>>

\* part_000:84-95: initialized_ = false; shutdown, close, socket_fd_ = -1.
UdpCloseSocket ==
    /\ upc = "x_check"
    /\ initialized_
    /\ initialized_' = FALSE
    /\ IF uc_socket_fd_ >= 0
       THEN uc_open' = FALSE /\ uc_socket_fd_' = -1
       ELSE UNCHANGED <<uc_open, uc_socket_fd_>>
    /\ upc' = "ret"
    /\ ures' = <<"close", TRUE>>
    /\ UNCHANGED <<receiving_, uc_rpc, uc_in, uc_inits>>
    /\ UNCHANGED notUdpClientVars

\* A datagram arrives at the client's socket (one waits at a time).
UdpClientPeerSend ==
    /\ uc_open
    /\ ~uc_in
    /\ uc_in' = TRUE
    /\ UNCHANGED <<initialized_, receiving_, uc_socket_fd_, uc_rpc, uc_open, uc_inits>>
    /\ UNCHANGED <<upc, ures, notUdpClientVars>>

\* ------------------------------------------- UdpClient::receive_loop()
\* part_000:190: while (receiving_) (the receive time-out of one second was
\* set on entry, part_000:184-188).
UdpClientLoopCheck ==
    /\ uc_rpc = "loop"
    /\ uc_rpc' = IF receiving_ THEN "recvfrom" ELSE "exited"
    /\ UNCHANGED <<initialized_, receiving_, uc_socket_fd_, uc_open, uc_in, uc_inits>>
    /\ UNCHANGED <<upc, ures, notUdpClientVars>>

\* part_000:198-199, 221-227: recvfrom() returns the waiting datagram and the
\* message callback is invoked on the receive thread.
UdpClientRecvDatagram ==
    /\ uc_rpc = "recvfrom"
    /\ uc_open
    /\ uc_in
    /\ uc_in' = FALSE
    /\ uc_rpc' = "msgcb"
    /\ UNCHANGED <<initialized_, receiving_, uc_socket_fd_, uc_open, uc_inits>>
    /\ UNCHANGED <<upc, ures, notUdpClientVars>>

\* part_000:201-210: recvfrom() returns -1 after the time-out with nothing
\* received (or on a closed descriptor); continue.
UdpClientRecvTimeout ==
    /\ uc_rpc = "recvfrom"
    /\ ~uc_open \/ ~uc_in
    /\ uc_rpc' = "loop"
    /\ UNCHANGED <<initialized_, receiving_, uc_socket_fd_, uc_open, uc_in, uc_inits>>
    /\ UNCHANGED <<upc, ures, notUdpClientVars>>

\* part_000:225-228: the message callback returns; round the loop.
UdpClientMessageReturn ==
    /\ uc_rpc = "msgcb"
    /\ uc_rpc' = "loop"
    /\ UNCHANGED <<initialized_, receiving_, uc_socket_fd_, uc_open, uc_in, uc_inits>>
    /\ UNCHANGED <<upc, ures, notUdpClientVars>>

\* ------------------------------------------------- UdpClient::send_to()
\* A send_to() without the test of initialized_.
UdpClientSendNeverRefused == FALSE

\* part_000:109: if (!initialized_)
UdpClientSendRefused == ~initialized_

\* part_000:109-112: not initialized: return false.
UdpClientSendToNotInitialized ==
    /\ component = "UdpClient"
    /\ upc = "idle"
    /\ UdpClientSendRefused
    /\ upc' = "ret"
    /\ ures' = <<"send_to", FALSE, "none">>
    /\ UNCHANGED <<udpClientVars, notUdpClientVars>>

\* part_000:120-123: inet_pton rejects the address: return false.
UdpClientSendToBadAddress ==
    /\ component = "UdpClient"
    /\ upc = "idle"
    /\ ~UdpClientSendRefused
    /\ upc' = "ret"
    /\ ures' = <<"send_to", FALSE, "none">>
    /\ UNCHANGED <<udpClientVars, notUdpClientVars>>

\* part_000:126-128: the send lock is taken (one thread drives the client, so
\* it is free) and sendto() on socket_fd_ is entered.
UdpClientSendToIo ==
    /\ component = "UdpClient"
    /\ upc = "idle"
    /\ ~UdpClientSendRefused
    /\ upc' = "uc_io"
    /\ UNCHANGED <<ures, udpClientVars, notUdpClientVars>>

\* part_000:130-136: -1 returns false, otherwise the comparison with
\* message.size().
UdpClientSendToReturn ==
    /\ upc = "uc_io"
    /\ \E outcome \in DatagramSendOutcomes(uc_open) :
         ures' = <<"send_to", SendResult(outcome), outcome>>
    /\ upc' = "ret"
    /\ UNCHANGED <<udpClientVars, notUdpClientVars>>

UdpClientThreadStep ==
    \/ UdpClientLoopCheck
    \/ UdpClientRecvDatagram
    \/ UdpClientRecvTimeout
    \/ UdpClientMessageReturn

UdpClientNext ==
    \/ UdpInitAlready
    \/ UdpInitFail
    \/ UdpInitOk
    \/ UdpStartReceivingSkip
    \/ UdpStartReceiving
    \/ \E call \in {"stop_receiving", "close"} : UdpStopReceivingSkip(call)
    \/ \E call \in {"stop_receiving", "close"} : UdpStopReceivingClear(call)
    \/ UdpStopReceivingJoin
    \/ UdpCloseNotInitialized
    \/ UdpCloseSocket
    \/ UdpClientSendToNotInitialized
    \/ UdpClientSendToBadAddress
    \/ UdpClientSendToIo
    \/ UdpClientSendToReturn
    \/ UdpClientPeerSend
    \/ UdpClientThreadStep

\* ================================================= TcpServer: other returns
\* tcp_server.cpp:43-45: if (running_) return false.
StartAlready ==
    /\ mpc = "idle"
    /\ running_
    /\ mpc' = "ret"
    /\ mres' = <<"start", FALSE>>
    /\ UNCHANGED <<marg, mtodo, starts>>
    /\ UNCHANGED <<poolVars, callerVars, otherVars, serverVars, osVars, cbVars>>

\* A start() that returns false after a failed listen() without closing the
\* socket it had opened and bound.
StartFailLeavesSocket ==
    /\ mpc = "idle"
    /\ ~running_
    /\ server_fd_' = 0
    /\ listening' = TRUE
    /\ mpc' = "ret"
    /\ mres' = <<"start", FALSE>>
    /\ UNCHANGED <<running_, clients_, clients_mutex_, apc, afd, aconn, hmsg>>
    /\ UNCHANGED <<fdtab, nextConn, sent, rcvd>>
    /\ UNCHANGED <<marg, mtodo, starts>>
    /\ UNCHANGED <<poolVars, callerVars, otherVars, cbVars>>

\* tcp_server.cpp:48-86: socket() fails (server_fd_ is left negative), or
\* setsockopt / inet_pton / bind / listen fails: close(server_fd_), server_fd_
\* keeps the closed descriptor's number; return false.
StartFail ==
    /\ mpc = "idle"
    /\ ~running_
    /\ \E stage \in {"socket", "setsockopt", "inet_pton", "bind", "listen"} :
         server_fd_' = IF stage = "socket" THEN -1 ELSE 0
    /\ listening' = FALSE
    /\ mpc' = "ret"
    /\ mres' = <<"start", FALSE>>
    /\ UNCHANGED <<running_, clients_, clients_mutex_, apc, afd, aconn, hmsg>>
    /\ UNCHANGED <<fdtab, nextConn, sent, rcvd>>
    /\ UNCHANGED <<marg, mtodo, starts>>
    /\ UNCHANGED <<poolVars, callerVars, otherVars, cbVars>>

\* tcp_server.cpp:102-104: if (!running_) return.
StopNotRunning ==
    /\ mpc = "idle"
    /\ ~running_
    /\ mpc' = "ret"
    /\ mres' = <<"stop", FALSE>>
    /\ UNCHANGED <<marg, mtodo, starts>>
    /\ UNCHANGED <<poolVars, callerVars, otherVars, serverVars, osVars, cbVars>>

\* ============================================ the life of every component
\* The program constructs one of the five classes and drives it from one
\* thread: it starts and stops it as it pleases, with set-up failures of the
\* operating system, peers that connect, send and close. (The examples under
\* src/ each construct one of them.)
Components == {"ThreadPool", "TcpServer", "TcpClient", "UdpServer", "UdpClient"}

\* A TcpClient and a UdpClient have no pool; only a ThreadPool is driven
\* through submit() and shutdown(), only a TcpServer through start() and stop().
LifeInit ==
    /\ component \in Components
    /\ CallerInit /\ TcpInit /\ OtherInit
    /\ IF component \in {"TcpClient", "UdpClient"}
       THEN /\ num_threads = 0
            /\ tasks_ = << >>
            /\ queue_mutex_ = NoThread
            /\ stop_ = FALSE
            /\ wpc = [w \in Workers |-> "absent"]
            /\ wtask = [w \in Workers |-> NoTask]
       ELSE PoolInit

\* A pool and the threads that call submit() and shutdown() on it.
PoolLifeNext ==
    \/ \E w \in Workers : WorkerStep(w) /\ UNCHANGED <<callerVars, tcpVars, otherVars>>
    \/ \E w \in Workers : TaskInvoke(w)
    \/ \E w \in Workers : TaskReturn(w)
    \/ \E c \in Callers : component = "ThreadPool" /\ SubmitCall(c)
    \/ \E c \in Callers : SubmitLock(c)
    \/ \E c \in Callers : SubmitThrow(c)
    \/ \E c \in Callers : SubmitEnqueue(c)
    \/ \E c \in Callers : SubmitNotify(c)
    \/ \E c \in Callers : component = "ThreadPool" /\ ShutdownLock(c)
    \/ \E c \in Callers : ShutdownAlready(c)
    \/ \E c \in Callers : ShutdownSet(c)
    \/ \E c \in Callers : ShutdownNotify(c)
    \/ \E c \in Callers : ShutdownJoin(c)

\* handle_client and close_client on a worker, for peers that connect and
\* close without sending.
TcpPoolStep(w) ==
    \/ HandleLoopCheck(w)
    \/ CloseClientErase(w)
    \/ CloseClientClose(w)
    \/ CloseClientCallback(w)

StopStep ==
    \/ StopCloseListen
    \/ StopJoin
    \/ StopLock
    \/ StopCloseClients

TcpLifeNext ==
    \/ component = "TcpServer" /\ StartOk
    \/ component = "TcpServer" /\ StartAlready
    \/ component = "TcpServer" /\ StartFail
    \/ component = "TcpServer" /\ StopNotRunning
    \/ component = "TcpServer" /\ StopBegin
    \/ Return
    \/ StopStep
    \/ AcceptConnection
    \/ AcceptFail
    \/ AcceptThreadStep
    \/ \E w \in Workers : TcpPoolStep(w)
    \/ \E w \in Workers : HandleRecvEnd(w)

LifeNext ==
    \/ PoolLifeNext
    \/ TcpLifeNext
    \/ ClientNext
    \/ UdpServerNext
    \/ UdpClientNext
    \/ UserReturn

SpecLife == LifeInit /\ [][LifeNext]_vars

\* ------------------------------------------------------- TcpClient claims
\* The receive loop of the client has returned because recv() on the open
\* socket returned 0 or -1 (no disconnect() has closed the socket): the
\* server closed the connection, or the receive failed.
LoopEndedItself == tc_rpc = "ret_recv" /\ tc_open

\* C11: once the receive loop has ended on a peer close or a receive error,
\* without any call to disconnect(), connected_ is false (is_connected()
\* returns false and send() returns false without sending).
C11_LoopEndClearsConnected == LoopEndedItself => ~connected_

\* C12: for each successful connect() the connection callback is invoked with
\* false at most once, not at all while connected_ is set, and exactly once
\* by the time a disconnect() has returned, whatever the server did before
\* and however many disconnect() calls follow.
C12_FalseCallbackOnce ==
    /\ tc_false <= 1
    /\ connected_ => tc_false = 0
    /\ (tc_connects > 0 /\ ~connected_ /\ upc \in {"idle", "ret"}) => tc_false = 1

\* C12 witness: after the server closed the connection, a disconnect() fired
\* the callback and a second disconnect() has returned without doing anything.
C12_Witness ==
    /\ ures = <<"disconnect", FALSE>>
    /\ tc_peer = "closed"
    /\ tc_connects = 1
    /\ tc_false = 1

\* ------------------------------------------------------- lifecycle claims
\* The driving thread's call returns now, and it is a call of operation op.
ServerReturns(op) == mres' # mres /\ mres' # << >> /\ mres'[1] = op
UserReturns(op) == ures' # ures /\ ures' # << >> /\ ures'[1] = op

\* C13: start() on a running TcpServer or UdpServer, connect() on a connected
\* TcpClient and init() on an initialized UdpClient return false and leave
\* the object, its socket, its threads and the callback counts as they were;
\* no step taken while the object is running/connected/initialized and its
\* driving thread is between calls counts as another successful start.
C13_DoubleStartFails ==
    [][ /\ (running_ /\ mpc = "idle")
           => /\ starts' = starts
              /\ listening' = listening
              /\ ServerReturns("start")
                    => /\ mres'[2] = FALSE
                       /\ UNCHANGED <<poolVars, serverVars, osVars, cbVars>>
        /\ (us_running_ /\ upc = "idle")
           => /\ us_starts' = us_starts
              /\ us_open' = us_open
              /\ UserReturns("start")
                    => ures'[2] = FALSE /\ UNCHANGED <<poolVars, udpServerVars>>
        /\ (connected_ /\ upc = "idle")
           => /\ tc_connects' = tc_connects
              /\ tc_true' = tc_true /\ tc_false' = tc_false
              /\ tc_open' = tc_open
              /\ UserReturns("connect")
                    => ures'[2] = FALSE /\ UNCHANGED clientVars
        /\ (initialized_ /\ upc = "idle")
           => /\ uc_inits' = uc_inits
              /\ uc_open' = uc_open
              /\ UserReturns("init")
                    => ures'[2] = FALSE /\ UNCHANGED udpClientVars ]_vars

\* C13 witness: start() has returned false on a running TcpServer that has a
\* registered connection and a live accept thread.
C13_Witness ==
    /\ mres = <<"start", FALSE>>
    /\ running_
    /\ apc \notin {"none", "exited"}
    /\ \E fd \in FDs : clients_[fd] # 0

\* C14: a start() / connect() that fails in the operating system returns false
\* with the lifecycle flag still false, no thread started, no callback
\* invoked, no queue or registry change and its socket closed; and whenever
\* the object is stopped between calls a start() / connect() that succeeds is
\* possible (the thread object is not joinable).
C14_SetupFailure ==
    /\ [](/\ (component = "TcpServer" /\ ~running_ /\ mpc = "idle" /\ starts < MaxStarts)
              => (apc = "none" /\ ~listening /\ ENABLED StartOk)
          /\ (component = "UdpServer" /\ ~us_running_ /\ upc = "idle" /\ us_starts < MaxStarts)
              => (us_rpc = "none" /\ ~us_open /\ ENABLED UdpStartOk)
          /\ (component = "TcpClient" /\ ~connected_ /\ upc = "idle" /\ tc_connects < MaxStarts)
              => (tc_rpc = "none" /\ ~tc_open /\ ENABLED ConnectOk))
    /\ [][ /\ (~running_ /\ ServerReturns("start") /\ mres'[2] = FALSE)
              => /\ ~running_' /\ ~listening'
                 /\ UNCHANGED <<apc, clients_, tasks_, wpc, disc, starts>>
           /\ (~us_running_ /\ UserReturns("start") /\ ures'[2] = FALSE)
              => /\ ~us_running_' /\ ~us_open'
                 /\ UNCHANGED <<us_rpc, us_cb, tasks_, wpc, us_starts>>
           /\ (~connected_ /\ UserReturns("connect") /\ ures'[2] = FALSE)
              => /\ ~connected_' /\ ~tc_open' /\ tc_socket_fd_' = -1
                 /\ UNCHANGED <<tc_rpc, tc_true, tc_false, tc_connects>> ]_vars

\* C14 witness: a TcpServer that ran and was stopped has failed to start
\* again, at a stage after socket(): the descriptor number is stale, the
\* socket closed.
C14_Witness ==
    /\ mres = <<"start", FALSE>>
    /\ ~running_
    /\ starts = 1
    /\ server_fd_ = 0
    /\ ~listening

\* ------------------------------------------ every component, left to finish
\* The steps of pool worker w, in whichever component owns the pool; a task
\* of the pool specification and a process_message task return.
LifeWorkerStep(w) ==
    \/ WorkerLock(w) /\ UNCHANGED <<callerVars, tcpVars, otherVars>>
    \/ WorkerWait(w) /\ UNCHANGED <<callerVars, tcpVars, otherVars>>
    \/ WorkerExit(w) /\ UNCHANGED <<callerVars, tcpVars, otherVars>>
    \/ WorkerTake(w) /\ UNCHANGED <<callerVars, tcpVars, otherVars>>
    \/ TaskInvoke(w)
    \/ TaskReturn(w)
    \/ TcpPoolStep(w)
    \/ UdpWorkerStep(w)

\* The steps of the component's background thread: the accept thread (accept()
\* fails once the listening socket is closed) or the receive thread (select()
\* and the UdpClient's recvfrom() time out, recvfrom() of the UdpServer returns
\* once the socket is shut down, a message callback returns).
BackgroundStep ==
    \/ AcceptThreadStep
    \/ AcceptFail
    \/ ClientThreadStep
    \/ UdpReceiveThreadStep
    \/ UdpClientThreadStep

\* The steps by which a call of the driving thread goes on once it has begun.
\* (A ::send may block for as long as the peer does not read: it is left out.)
DriverStep ==
    \/ StopStep
    \/ Return
    \/ UserReturn
    \/ ConnectCallback
    \/ ConnectSpawn
    \/ DisconnectClose
    \/ DisconnectJoin
    \/ DisconnectCallback
    \/ UdpStopClose
    \/ UdpStopJoin
    \/ UdpStopReceivingJoin
    \/ UdpCloseNotInitialized
    \/ UdpCloseSocket

PoolCallerStep(c) ==
    \/ SubmitLock(c)
    \/ SubmitThrow(c)
    \/ SubmitEnqueue(c)
    \/ SubmitNotify(c)
    \/ ShutdownAlready(c)
    \/ ShutdownSet(c)
    \/ ShutdownNotify(c)
    \/ ShutdownJoin(c)

\* Every thread that can go on does: the scheduler is fair to runnable
\* threads, and a worker or background thread is not starved of a mutex that
\* keeps being released. Nothing is assumed of the peers, nor of which calls
\* the program makes or when.
FairSpecLife ==
    /\ LifeInit
    /\ [][LifeNext]_vars
    /\ \A w \in Workers : SF_vars(LifeWorkerStep(w))
    /\ SF_vars(BackgroundStep)
    /\ WF_vars(DriverStep)
    /\ \A c \in Callers : WF_vars(PoolCallerStep(c))

\* The driving thread is inside stop(), disconnect(), close() or
\* stop_receiving(); caller c is inside shutdown().
InTeardown ==
    \/ mpc \in {"stop_listen", "stop_join", "stop_lock", "stop_locked"}
    \/ upc \in {"d_close", "d_join", "d_cb", "u_close", "u_join", "sr_join",
                "x_join", "x_check"}
InShutdown(c) == cpc[c] \in {"shutdown_locked", "shutdown_notify", "shutdown_join"}

\* C15: stop(), disconnect(), close() and shutdown() return whatever state
\* they are called in; called on an object that is not running (never
\* started, start failed, already stopped) they return having changed nothing:
\* no callback, no join, no close.
C15_SafeTeardown ==
    /\ InTeardown ~> (mpc = "idle" /\ upc \in {"idle", "ret"})
    /\ \A c \in Callers : InShutdown(c) ~> (cpc[c] = "idle")
    /\ [][ /\ (~running_ /\ mpc = "idle" /\ ServerReturns("stop"))
              => UNCHANGED <<poolVars, serverVars, osVars, cbVars>>
           /\ (~us_running_ /\ upc = "idle" /\ UserReturns("stop"))
              => UNCHANGED <<poolVars, udpServerVars>>
           /\ (~connected_ /\ upc = "idle" /\ UserReturns("disconnect"))
              => UNCHANGED clientVars
           /\ (~initialized_ /\ (upc' = "x_check" \/ UserReturns("close")))
              => UNCHANGED udpClientVars
           /\ \A c \in Callers :
                 (stop_ /\ cpc[c] = "shutdown_locked" /\ cpc'[c] # "shutdown_locked")
                    => /\ cpc'[c] = "idle"
                       /\ UNCHANGED <<tasks_, stop_, wpc, wtask, closer>> ]_vars

\* C16: a shutdown() that finds stop_ set holds the queue lock when it tests
\* the flag and returns at once: it leaves the queue, the flag and the workers
\* as they are and joins nothing. Only the call that set stop_ notifies and
\* joins, so at most one caller is ever past the test, and once that call has
\* returned no other call notifies or joins again.
C16_ShutdownIdempotent ==
    /\ [](Cardinality({c \in Callers : cpc[c] \in {"shutdown_notify", "shutdown_join"}}) <= 1)
    /\ [][ /\ closer = "returned" => closer' = "returned"
           /\ \A c \in Callers :
                 (stop_ /\ cpc[c] = "shutdown_locked" /\ cpc'[c] # "shutdown_locked")
                    => /\ queue_mutex_ = CallerThread(c)
                       /\ cpc'[c] = "idle"
                       /\ UNCHANGED <<tasks_, stop_, wpc, wtask, closer>> ]_vars

\* C16 witness: a second shutdown() holds the lock and finds stop_ set while
\* the first is still joining the workers and a task is still queued.
C16_Witness ==
    \E c1, c2 \in Callers :
        /\ cpc[c1] = "shutdown_join"
        /\ cpc[c2] = "shutdown_locked"
        /\ stop_
        /\ tasks_ # << >>

\* ---------------------------------------------------- resource accounting
\* No receive loop is left: no handle_client task is queued and no worker
\* holds one.
NoReceiveLoops ==
    /\ \A i \in 1..Len(tasks_) : Len(tasks_[i]) # 2
    /\ \A w \in Workers : Len(wtask[w]) # 2

\* A receive loop on descriptor fd that has not reached the close() of its
\* close_client() yet: queued, or held by a worker before tcp_server.cpp:236.
LoopWillClose(fd) ==
    \/ \E i \in 1..Len(tasks_) : Len(tasks_[i]) = 2 /\ tasks_[i][1] = fd
    \/ \E w \in Workers :
         /\ Len(wtask[w]) = 2
         /\ wtask[w][1] = fd
         /\ wpc[w] \in {"run", "h_loop", "h_recv", "h_got", "h_msgcb",
                        "h_close", "h_close2"}

\* accept_loop is between accept() and the submit of the receive loop for
\* descriptor fd (tcp_server.cpp:146-176).
AcceptSubmitting(fd) ==
    afd = fd /\ apc \in {"register", "cb", "submit", "submit_locked"}

\* C17: once the server is stopped (stop() returned, start() failed or was
\* never called) and no receive loop is left, every descriptor is closed, the
\* listening socket is closed, the registry is empty and the accept thread
\* has been joined; and at all times every descriptor that is open or
\* registered has a receive loop that has yet to close it (or accept_loop is
\* about to submit one).
C17_ResourceAccounting ==
    /\ (Stopped /\ NoReceiveLoops) =>
          /\ \A fd \in FDs : fdtab[fd] = 0 /\ clients_[fd] = 0
          /\ ~listening
          /\ apc = "none"
    /\ \A fd \in FDs :
          (fdtab[fd] # 0 \/ clients_[fd] # 0) =>
              (LoopWillClose(fd) \/ AcceptSubmitting(fd))

\* C17 witness: stop() has returned, both connections of the run were
\* accepted, their receive loops have run close_client() and returned.
C17_Witness ==
    /\ Stopped
    /\ starts > 0
    /\ nextConn > MaxConns
    /\ \A c \in Conns : disc[c] >= 1
    /\ NoReceiveLoops

Registered == {fd \in FDs : clients_[fd] # 0}

\* The identifiers the range-for of the broadcast in progress has yet to visit.
ToVisit == {mtodo[i] : i \in 1..Len(mtodo)}

\* C19: broadcast() works on the registry as it is when the call takes the
\* lock, which does not change until the call returns; it calls ::send exactly
\* once on every identifier of it, whatever the earlier sends returned, and
\* returns only when all are done, without a result for the caller.
C19_BroadcastOnceEach ==
    /\ [][(mpc = "idle" /\ mpc' = "bcast") =>
             (bsnap' = Registered /\ ToVisit' = Registered)]_vars
    /\ [](mpc = "bcast" =>
             /\ Registered = bsnap
             /\ bfailed \subseteq bsnap \ ToVisit
             /\ \A fd \in FDs :
                  bsent[fd] = IF fd \in bsnap \ ToVisit THEN 1 ELSE 0)
    /\ [][(mpc = "bcast" /\ mpc' # "bcast") =>
             /\ \A fd \in bsnap : bsent[fd] = 1
             /\ mpc' = "idle"
             /\ mres' = mres]_vars

\* C19 witness: a broadcast over two registered connections has called ::send
\* on both although neither send took the whole message.
C19_Witness ==
    /\ mpc = "bcast"
    /\ mtodo = << >>
    /\ Cardinality(bsnap) = MaxFd
    /\ bfailed = bsnap
    /\ \A fd \in FDs : bsent[fd] = 1

\* ------------------------------------------ broadcast with a stalled peer
\* The peer of the open connection c stops reading: its socket's buffers fill
\* and a ::send to it waits (tcp_server.cpp:270, a blocking socket).
PeerStall(c) ==
    /\ SocketOpen(c)
    /\ c \notin stalled
    /\ stalled' = stalled \cup {c}
    /\ UNCHANGED <<bsnap, bsent, bfailed>>
    /\ UNCHANGED <<userVars, clientVars, udpServerVars, udpClientVars, senderVars>>
    /\ UNCHANGED <<poolVars, callerVars, tcpVars>>

\* The steps of the controlling thread inside broadcast().
BroadcastStep == BroadcastSend \/ BroadcastEnd

\* A started server whose controlling thread broadcasts, with peers that
\* connect, send, close and stop reading as they please.
BcastNext ==
    \/ ServeNext
    \/ \E c \in Conns : PeerStall(c)
    \/ BroadcastBegin
    \/ BroadcastStep

\* The scheduler is fair to the server's threads, the one inside broadcast()
\* included; nothing is assumed of the peers.
FairSpecBcast ==
    /\ TcpInitAll
    /\ [][BcastNext]_vars
    /\ SF_vars(AcceptThreadStep)
    /\ \A w \in Workers : SF_vars(TcpWorkerStep(w))
    /\ WF_vars(BroadcastStep)

\* C20: a broadcast calls ::send at most once per registered connection, and
\* a connection whose peer is reading gets its ::send (or stops reading
\* itself) whatever the peers of the other connections do.
C20_StallDelaysOnlyItself ==
    /\ [](\A fd \in FDs : bsent[fd] <= 1)
    /\ \A fd \in FDs :
          (mpc = "bcast" /\ fd \in ToVisit /\ ~SendBlocks(fd))
              ~> (fd \notin ToVisit \/ SendBlocks(fd))

\* ------------------------------------------------ the threads of callbacks
\* The thread a client or a UdpServer creates for its receive loop.
ReceiveThread == <<"receive">>

\* The threads that are inside a registered callback: the accept thread in
\* the connection callback (tcp_server.cpp:170), a worker in the message or
\* disconnect callback (tcp_server.cpp:215, 240) or in process_message
\* (tcp_server_example.cpp:389), a receive thread in a client's message
\* callback (thread_pool.h:356, part_000:221), and the thread that called
\* connect() or disconnect() in the connection callback (thread_pool.h:218,
\* 254).
InCallback ==
    {WorkerThread(w) : w \in {x \in Workers : wpc[x] \in {"h_msgcb", "h_disc", "u_msgcb"}}}
    \cup (IF apc = "cb" THEN {AcceptThread} ELSE {})
    \cup (IF tc_rpc = "msgcb" \/ uc_rpc = "msgcb" THEN {ReceiveThread} ELSE {})
    \cup (IF upc \in {"c_cb", "d_cb"} THEN {UserThread} ELSE {})

\* The threads the servers and clients create themselves.
CoreThreads == {WorkerThread(w) : w \in Workers} \cup {AcceptThread, ReceiveThread}

\* C21: every registered callback runs on the accept thread, a receive thread
\* or a pool worker, never on the thread that called into the object.
C21_CallbacksOnCoreThreads == InCallback \subseteq CoreThreads

\* ------------------------------------------- send on an inactive endpoint
\* The second thread's send() returns.
OtherReturns == xres' # xres /\ xres' # << >>

\* C22: a send() on a TcpClient whose connected_ is clear, a send_to() on a
\* UdpServer whose running_ is clear and a send_to() on a UdpClient whose
\* initialized_ is clear do not go on to the OS send; they return false and
\* leave every other variable as it was.
C22_InactiveSendFails ==
    [][ /\ (component = "TcpClient" /\ upc = "idle" /\ ~connected_) =>
              /\ upc' \notin {"s_lock", "s_io"}
              /\ UserReturns("send") =>
                    /\ ures' = <<"send", FALSE, "none">>
                    /\ UNCHANGED <<clientVars, senderVars, notSenderVars>>
        /\ (component = "TcpClient" /\ xpc = "idle" /\ ~connected_) =>
              /\ xpc' \notin {"s_lock", "s_io"}
              /\ OtherReturns =>
                    /\ xres' = <<"send", FALSE, "none">>
                    /\ UNCHANGED <<clientVars, send_mutex_, upc, ures, notSenderVars>>
        /\ (component = "UdpServer" /\ upc = "idle" /\ ~us_running_) =>
              /\ upc' # "us_io"
              /\ UserReturns("send_to") =>
                    /\ ures' = <<"send_to", FALSE, "none">>
                    /\ UNCHANGED <<poolVars, udpServerVars, notUdpServerVars>>
        /\ (component = "UdpClient" /\ upc = "idle" /\ ~initialized_) =>
              /\ upc' # "uc_io"
              /\ UserReturns("send_to") =>
                    /\ ures' = <<"send_to", FALSE, "none">>
                    /\ UNCHANGED <<udpClientVars, notUdpClientVars>>
      ]_vars

\* C22 witness: send_to() has returned false on a UdpClient that was
\* initialized and closed again.
C22_Witness ==
    /\ component = "UdpClient"
    /\ ures = <<"send_to", FALSE, "none">>
    /\ ~initialized_
    /\ uc_inits = 1
    /\ ~uc_open

\* ------------------------------------------------------ concurrent send()
\* The threads that are inside ::send on the client's socket.
InClientSend ==
    (IF upc = "s_io" THEN {UserThread} ELSE {})
    \cup (IF xpc = "s_io" THEN {OtherThread} ELSE {})

\* C23: at most one thread is inside ::send on the TcpClient's socket, and it
\* is the one that holds send_mutex_; the receive thread takes no part in
\* that lock.
C23_SendsSerialized ==
    /\ Cardinality(InClientSend) <= 1
    /\ \A t \in InClientSend : send_mutex_ = t
    /\ send_mutex_ \in {NoThread, UserThread, OtherThread}

\* C23 witness: one thread is inside ::send, the other has passed the test of
\* connected_ and waits for send_mutex_, and the receive thread is inside
\* recv() on the same socket.
C23_Witness ==
    /\ xpc = "s_io"
    /\ upc = "s_lock"
    /\ tc_rpc = "recv"
    /\ tc_open

\* ------------------------------------------------ sends that fail
\* A started TcpServer whose controlling thread calls send_to(), or a
\* TcpClient whose threads call connect(), disconnect() and send(); peers
\* connect, send and close as they please.
SendInit == LifeInit /\ component \in {"TcpServer", "TcpClient"}

SendNext ==
    \/ component = "TcpServer" /\ StartOk
    \/ component = "TcpServer" /\ \E fd \in FDs : SendToAbsent(fd)
    \/ component = "TcpServer" /\ \E fd \in FDs : SendToSend(fd)
    \/ SendToReturn
    \/ Return
    \/ AcceptConnection
    \/ AcceptThreadStep
    \/ \E w \in Workers : TcpWorkerStep(w)
    \/ \E w \in Workers : HandleRecvEnd(w)
    \/ \E w \in Workers : HandleMessageReturn(w)
    \/ \E c \in Conns : PeerSend(c)
    \/ ClientNext
    \/ UserReturn

SpecSend == SendInit /\ [][SendNext]_vars

\* C24: when send_to() on a registered connection, or send() on a connected
\* client, returns false because ::send failed or took only a part, that
\* step changes nothing else: the registry, running_ / connected_, the
\* sockets, the receive loops and the callback counts are as before.
C24_SendFailureKeepsConnection ==
    [][ /\ (ServerReturns("send_to") /\ mres'[2] = "found" /\ ~mres'[4]) =>
              /\ mres'[3] \in {"partial", "error"}
              /\ UNCHANGED <<running_, clients_, fdtab, disc, wpc, wtask, tasks_, apc>>
        /\ (UserReturns("send") /\ ures'[3] # "none" /\ ~ures'[2]) =>
              /\ ures'[3] \in {"partial", "error"}
              /\ UNCHANGED <<clientVars, xpc, xres>>
        /\ (OtherReturns /\ xres'[3] # "none" /\ ~xres'[2]) =>
              /\ xres'[3] \in {"partial", "error"}
              /\ UNCHANGED <<clientVars, upc, ures>>
      ]_vars

\* C24 witness: send_to() returned false after a partial ::send; the
\* connection is still registered and open and a worker is inside recv() on
\* it.
C24_Witness ==
    /\ mpc = "ret"
    /\ mres = <<"send_to", "found", "partial", FALSE>>
    /\ running_
    /\ clients_[marg] # 0
    /\ fdtab[marg] = clients_[marg]
    /\ \E w \in Workers : wpc[w] = "h_recv" /\ Len(wtask[w]) = 2 /\ wtask[w][1] = marg

\* ------------------------------------------------------- a task that throws
\* C25: when the body of a task throws, the exception goes into the future of
\* that task and of no other; the worker that ran it goes back to the top of
\* its loop, and no worker thread ends in that step: workers end only once
\* stop_ is set.
C25_TaskFailureContained ==
    /\ [][\A t \in TaskIds :
            (future[t] # "exception" /\ future'[t] = "exception") =>
                /\ \A u \in TaskIds \ {t} : future'[u] = future[u]
                /\ \E w \in Workers :
                      /\ wtask[w] = <<t>>
                      /\ wpc[w] = "running"
                      /\ wpc'[w] = "lock"
                      /\ \A v \in Workers \ {w} : wpc'[v] = wpc[v]
                /\ tasks_' = tasks_]_vars
    /\ [](\A w \in Workers : wpc[w] = "exited" => stop_)

\* C25 witness: in a pool of one worker the first task has thrown and the
\* worker is now running the second.
C25_Witness ==
    /\ num_threads = 1
    /\ ~stop_
    /\ \E t, u \in TaskIds :
          /\ t # u
          /\ future[t] = "exception"
          /\ wtask[1] = <<u>>
          /\ wpc[1] = "running"

\* ------------------------------------------------- UdpServer: dispatching
\* The task receive_loop submits for datagram d.
DatagramTask(d) == <<"udp", "sender", d>>

\* Datagram d has not been sent yet, or still waits in the socket.
DatagramUnread(d) == d >= us_next \/ us_in = d

\* Where a datagram that was read is: in receive_loop's hands on its way to
\* submit(), in the queue, in a worker's hands before process_message, or
\* handed to the message callback.
DatagramCopies(d) ==
    (IF us_msg = d /\ us_rpc \in {"submit", "submit_locked"} THEN 1 ELSE 0)
    + Cardinality({i \in 1..Len(tasks_) : tasks_[i] = DatagramTask(d)})
    + Cardinality({w \in Workers : wtask[w] = DatagramTask(d) /\ wpc[w] = "run"})
    + us_cb[d]

\* Every worker of the pool is inside a message callback.
AllWorkersInCallback ==
    \A w \in Workers : Live(w) => wpc[w] = "u_msgcb"

\* C26: a datagram recvfrom() returned is from then on in exactly one place:
\* on its way into the queue, in the queue, in a worker's hands, or handed
\* to the message callback once, by a worker and never by the receive
\* thread; and the receive thread's recvfrom() and submit() do
\* not wait for the workers: they go on while every worker is inside a
\* callback.
C26_OneCallbackPerDatagram ==
    /\ [](\A d \in Dgrams :
             /\ DatagramCopies(d) <= 1
             /\ DatagramUnread(d) => DatagramCopies(d) = 0)
    /\ [][\A d \in Dgrams :
             /\ (us_rpc = "recvfrom" /\ us_rpc' = "submit" /\ us_msg' = d) =>
                   DatagramCopies(d)' = 1
             /\ DatagramCopies(d) = 1 => DatagramCopies(d)' = 1]_vars
    /\ [][us_cb' # us_cb =>
             \E w \in Workers :
                 /\ wpc[w] = "run" /\ wpc'[w] = "u_msgcb"
                 /\ Len(wtask[w]) = 3
                 /\ us_cb' = [us_cb EXCEPT ![wtask[w][3]] = @ + 1]
                 /\ us_rpc' = us_rpc]_vars
    /\ [](AllWorkersInCallback =>
             /\ (us_rpc = "recvfrom" /\ us_open /\ us_in # 0) => ENABLED UdpRecvDatagram
             /\ us_rpc = "submit" => ENABLED UdpSubmitLock
             /\ us_rpc = "submit_locked" => ENABLED UdpSubmitEnqueue
             /\ us_rpc = "notify" => ENABLED UdpSubmitNotify)

\* C26 witness: the only worker of the pool is inside the callback for the
\* first datagram while the receive thread has queued the second.
C26_Witness ==
    /\ component = "UdpServer"
    /\ num_threads = 1
    /\ wpc[1] = "u_msgcb"
    /\ wtask[1] = DatagramTask(1)
    /\ us_cb[1] = 1
    /\ tasks_ = <<DatagramTask(2)>>
    /\ us_rpc = "recvfrom"

\* ------------------------------------------------- UDP: waiting for a datagram
\* What can end the UdpServer's recvfrom(): a datagram, or stop() shutting the
\* socket down. The socket has no receive time-out.
UdpRecvEnds == UdpRecvDatagram \/ UdpRecvShutdown

\* What can end the UdpClient's recvfrom(): a datagram, or the time-out of one
\* second set with SO_RCVTIMEO.
UdpClientRecvEnds == UdpClientRecvDatagram \/ UdpClientRecvTimeout

\* C27: a receive loop that waits for a datagram never waits without bound:
\* in the UdpServer and in the UdpClient the wait inside recvfrom() can end
\* in every state, also while no datagram waits and the socket is open, so
\* that the loop comes to test its flag again without the socket being closed.
C27_BoundedReceiveWait ==
    /\ uc_rpc = "recvfrom" => ENABLED UdpClientRecvEnds
    /\ us_rpc = "recvfrom" => ENABLED UdpRecvEnds

\* ----------------------------------------------- disconnect() terminates
\* disconnect() has joined the receive thread, or has returned.
DisconnectJoined ==
    \/ upc = "d_cb"
    \/ upc = "ret" /\ ures # << >> /\ ures[1] = "disconnect"

\* C28: a disconnect() that has cleared connected_ goes on to close the
\* socket, the receive loop leaves select() or recv() and returns, the join
\* completes and disconnect() returns, whatever the server sends or does not
\* send; and from the join on there is no receive thread, so that no message
\* callback is invoked until a later connect() starts a new receive loop.
C28_DisconnectTerminates ==
    /\ (component = "TcpClient" /\ upc = "d_close")
          ~> (upc = "ret" /\ ures = <<"disconnect", TRUE>>)
    /\ [](DisconnectJoined => tc_rpc = "none")
    /\ [][/\ (tc_rpc' = "msgcb" /\ tc_rpc # "msgcb") => tc_rpc = "recv"
          /\ (tc_rpc = "none" /\ tc_rpc' # "none") => upc = "c_spawn"]_vars

\* ------------------------------------------------ UdpClient: receiving flag
\* The socket of the UdpClient and the flag that says it exists.
SocketLifetime == <<initialized_, uc_socket_fd_, uc_open>>

\* The driving thread is inside stop_receiving(), called directly or as the
\* first statement of close().
InStopReceiving == upc \in {"sr_join", "x_join"}

\* C29: a step of start_receiving() or stop_receiving() leaves initialized_
\* and the socket alone, and an init() leaves receiving_ and the receive
\* thread alone; a start_receiving() on a client that is not initialized
\* changes nothing; receiving_ is set only while initialized_ is; and between
\* calls an initialized client that is not receiving can start receiving and
\* one that is receiving can stop.
C29_ReceivingFlag ==
    /\ [][/\ (receiving_' # receiving_ \/ InStopReceiving
              \/ UserReturns("start_receiving") \/ UserReturns("stop_receiving"))
             => UNCHANGED SocketLifetime
          /\ UserReturns("init") => UNCHANGED <<receiving_, uc_rpc>>
          /\ (~initialized_ /\ UserReturns("start_receiving"))
             => (ures'[2] = FALSE /\ UNCHANGED udpClientVars)]_vars
    /\ [](receiving_ => initialized_)
    /\ []((component = "UdpClient" /\ upc = "idle") =>
             /\ (initialized_ /\ ~receiving_) => ENABLED UdpStartReceiving
             /\ receiving_ => ENABLED UdpStopReceivingClear("stop_receiving"))

\* C29 witness: stop_receiving() has returned on a client that was receiving;
\* it is still initialized, its socket is open and a datagram waits in it.
C29_Witness ==
    /\ component = "UdpClient"
    /\ upc = "ret"
    /\ ures = <<"stop_receiving", TRUE>>
    /\ initialized_
    /\ ~receiving_
    /\ uc_open
    /\ uc_in
    /\ uc_rpc = "none"

\* ------------------------------------------------------- locks and socket I/O
\* The threads that are inside accept(), recv(), recvfrom(), send() or
\* sendto() on a socket; a broadcast() with entries left is in or about to
\* enter its next ::send without having let go of anything.
ThreadsInSocketIo ==
    (IF mpc = "send_io" \/ (mpc = "bcast" /\ mtodo # << >>) THEN {MainThread} ELSE {})
    \cup (IF apc = "accept" THEN {AcceptThread} ELSE {})
    \cup {WorkerThread(w) : w \in {x \in Workers : wpc[x] = "h_recv"}}
    \cup (IF tc_rpc = "recv" \/ us_rpc = "recvfrom" \/ uc_rpc = "recvfrom"
          THEN {ReceiveThread} ELSE {})
    \cup (IF upc \in {"s_io", "us_io", "uc_io"} THEN {UserThread} ELSE {})
    \cup (IF xpc = "s_io" THEN {OtherThread} ELSE {})

\* C30: no thread that is inside a socket call holds clients_mutex_ or the
\* pool's queue_mutex_.
C30_NoLockAcrossSocketIo ==
    \A t \in ThreadsInSocketIo : clients_mutex_ # t /\ queue_mutex_ # t

\* ---------------------------------------- the server's calls from callbacks
\* The positions at which a thread of the server is inside a callback of the
\* program, and the position of the same thread while a send_to(), broadcast()
\* or get_clients() that the callback called holds clients_mutex_.
CallbackPositions == {"h_msgcb", "h_disc"}
InsideCall(pos) == IF pos = "h_msgcb" THEN "h_msgcb_call" ELSE "h_disc_call"

\* A mutex a thread of the server holds while it invokes a callback.
HeldIntoCallback(t) == clients_mutex_ = t \/ queue_mutex_ = t

\* tcp_server.cpp:170-171 -> 250-251, 266-267, 302-303: the connection
\* callback calls send_to(), broadcast() or get_clients(), whose first
\* statement locks clients_mutex_.
AcceptCallbackCall ==
    /\ apc = "cb"
    /\ clients_mutex_ = NoThread
    /\ clients_mutex_' = AcceptThread
    /\ apc' = "cb_call"
    /\ UNCHANGED <<running_, server_fd_, clients_, afd, aconn, hmsg>>
    /\ UNCHANGED <<poolVars, callerVars, otherVars, osVars, mainVars, cbVars>>

\* tcp_server.cpp:253-260, 269-272, 303-305: the call made by the connection
\* callback returns and its lock_guard releases clients_mutex_.
AcceptCallbackCallReturn ==
    /\ apc = "cb_call"
    /\ clients_mutex_' = NoThread
    /\ apc' = "cb"
    /\ UNCHANGED <<running_, server_fd_, clients_, afd, aconn, hmsg>>
    /\ UNCHANGED <<poolVars, callerVars, otherVars, osVars, mainVars, cbVars>>

\* tcp_server.cpp:213-215, 239-241 -> 250-251, 266-267, 302-303: the message
\* callback (as the example's does with send_to, tcp_server_example.cpp:
\* 100-107) or the disconnect callback calls into the server.
WorkerCallbackCall(w) ==
    /\ wpc[w] \in CallbackPositions
    /\ Len(wtask[w]) = 2
    /\ clients_mutex_ = NoThread
    /\ clients_mutex_' = WorkerThread(w)
    /\ wpc' = [wpc EXCEPT ![w] = InsideCall(wpc[w])]
    /\ UNCHANGED <<num_threads, tasks_, queue_mutex_, stop_, wtask>>
    /\ UNCHANGED <<running_, server_fd_, clients_, apc, afd, aconn, hmsg>>
    /\ UNCHANGED <<callerVars, otherVars, osVars, mainVars, cbVars>>

\* tcp_server.cpp:253-260, 269-272, 303-305: the call made by the worker's
\* callback returns and its lock_guard releases clients_mutex_.
WorkerCallbackCallReturn(w) ==
    /\ wpc[w] \in {InsideCall(pos) : pos \in CallbackPositions}
    /\ clients_mutex_' = NoThread
    /\ wpc' = [wpc EXCEPT ![w] = IF wpc[w] = "h_msgcb_call" THEN "h_msgcb" ELSE "h_disc"]
    /\ UNCHANGED <<num_threads, tasks_, queue_mutex_, stop_, wtask>>
    /\ UNCHANGED <<running_, server_fd_, clients_, apc, afd, aconn, hmsg>>
    /\ UNCHANGED <<callerVars, otherVars, osVars, mainVars, cbVars>>

\* A started server whose callbacks call back into it while its controlling
\* thread calls send_to(); peers connect, send and close as they please.
ReenterNext ==
    \/ ServeNext
    \/ \E fd \in FDs : SendToSend(fd)
    \/ SendToReturn
    \/ Return
    \/ AcceptCallbackCall
    \/ AcceptCallbackCallReturn
    \/ \E w \in Workers : WorkerCallbackCall(w)
    \/ \E w \in Workers : WorkerCallbackCallReturn(w)

SpecReenter == TcpInitAll /\ [][ReenterNext]_vars

\* The threads of the server that are inside a callback and not inside a
\* call made by it.
CallbackThreads ==
    {WorkerThread(w) : w \in {x \in Workers : wpc[x] \in CallbackPositions \cup {"u_msgcb"}}}
    \cup (IF apc = "cb" THEN {AcceptThread} ELSE {})

\* The step by which the owner of clients_mutex_ lets go of it is enabled.
OwnerCanRelease ==
    \/ clients_mutex_ = MainThread /\ ENABLED SendToReturn
    \/ clients_mutex_ = AcceptThread /\ ENABLED AcceptCallbackCallReturn
    \/ \E w \in Workers : clients_mutex_ = WorkerThread(w) /\ ENABLED WorkerCallbackCallReturn(w)

\* C31: a thread of the server that is inside a connection, message or
\* disconnect callback holds neither clients_mutex_ nor queue_mutex_; so a
\* send_to(), broadcast() or get_clients() called by the callback takes the
\* registry lock when it is free, and when it is not, its owner is another
\* thread that can release it: no thread waits for itself or in a cycle.
C31_CallbacksOutsideLocks ==
    /\ \A t \in CallbackThreads : ~HeldIntoCallback(t)
    /\ apc = "cb" =>
          IF clients_mutex_ = NoThread THEN ENABLED AcceptCallbackCall ELSE OwnerCanRelease
    /\ \A w \in Workers : (wpc[w] \in CallbackPositions /\ Len(wtask[w]) = 2) =>
          IF clients_mutex_ = NoThread THEN ENABLED WorkerCallbackCall(w) ELSE OwnerCanRelease
    /\ clients_mutex_ # NoThread => OwnerCanRelease

\* C31 witness: a worker's message callback is inside send_to() with the
\* registry lock while the accept thread, inside the connection callback of
\* the next connection, waits to call into the server too.
C31_Witness ==
    /\ apc = "cb"
    /\ \E w \in Workers : wpc[w] = "h_msgcb_call" /\ clients_mutex_ = WorkerThread(w)

\* ------------------------------------------------ receives on pool threads
\* Worker w is inside recv() on an open connection whose peer has sent
\* nothing that is still unread: it waits for the peer.
WorkerWaitsForPeer(w) ==
    /\ wpc[w] = "h_recv"
    /\ Len(wtask[w]) = 2
    /\ IF fdtab[HandlerFd(w)] = 0 THEN FALSE
       ELSE rcvd[fdtab[HandlerFd(w)]] = sent[fdtab[HandlerFd(w)]]

\* C32: no worker of the pool waits inside a socket receive for a peer, so
\* that peers that send nothing cannot hold the workers.
C32_NoReceiveOnPoolThreads ==
    \A w \in Workers : ~WorkerWaitsForPeer(w)

\* ------------------------------------------------ the queue lock and tasks
\* Worker w has a task in hand: moved out of the queue, being invoked or
\* running.
HasTask(w) == wpc[w] \in {"run", "running"}

\* The thread that owns queue_mutex_ is at a position where its next step
\* releases it, and that step is enabled.
QueueOwnerCanRelease ==
    \/ \E w \in Workers :
          /\ queue_mutex_ = WorkerThread(w)
          /\ wpc[w] = "locked"
          /\ ENABLED (WorkerWait(w) \/ WorkerExit(w) \/ WorkerTake(w))
    \/ \E c \in Callers :
          /\ queue_mutex_ = CallerThread(c)
          /\ \/ cpc[c] = "submit_locked" /\ ENABLED (SubmitThrow(c) \/ SubmitEnqueue(c))
             \/ cpc[c] = "shutdown_locked" /\ ENABLED (ShutdownAlready(c) \/ ShutdownSet(c))

\* C33: a worker that has a task in hand does not own queue_mutex_; whoever
\* owns it is a worker between its lock and its unlock or a caller inside
\* the locked block of submit() or shutdown(), and can release it at once,
\* however long the tasks in hand run. So with the mutex free a submit(), a
\* shutdown() and another worker's dequeue can take it while tasks run.
C33_TasksRunUnlocked ==
    /\ \A w \in Workers : HasTask(w) => queue_mutex_ # WorkerThread(w)
    /\ queue_mutex_ # NoThread => QueueOwnerCanRelease
    /\ (queue_mutex_ = NoThread /\ \E w \in Workers : HasTask(w)) =>
          /\ \A c \in Callers : cpc[c] = "submit_lock" => ENABLED SubmitLock(c)
          /\ \A c \in Callers : cpc[c] = "idle" => ENABLED ShutdownLock(c)
          /\ \A v \in Workers : wpc[v] = "lock" => ENABLED WorkerLock(v)

\* C33 witness: one worker runs a task while the other holds the lock in its
\* loop and a caller is about to lock for a submit().
C33_Witness ==
    /\ wpc[1] = "running"
    /\ wpc[2] = "locked"
    /\ queue_mutex_ = WorkerThread(2)
    /\ \E c \in Callers : cpc[c] = "submit_lock"

\* ------------------------------------------------------ the pool, left to run
\* The steps of worker w that the scheduler owes it: its loop and its task.
\* A wake-up without a notification is permitted and never owed.
PoolWorkerStep(w) ==
    \/ WorkerLock(w) /\ UNCHANGED <<callerVars, otherVars, tcpVars>>
    \/ WorkerWait(w) /\ UNCHANGED <<callerVars, otherVars, tcpVars>>
    \/ WorkerExit(w) /\ UNCHANGED <<callerVars, otherVars, tcpVars>>
    \/ WorkerTake(w) /\ UNCHANGED <<callerVars, otherVars, tcpVars>>
    \/ TaskInvoke(w)
    \/ TaskReturn(w)

\* The steps by which a submit() or shutdown() that has begun goes on; that a
\* caller begins another call is not assumed.
PoolCallStep(c) ==
    \/ SubmitLock(c)
    \/ SubmitThrow(c)
    \/ SubmitEnqueue(c)
    \/ SubmitNotify(c)
    \/ ShutdownAlready(c)
    \/ ShutdownSet(c)
    \/ ShutdownNotify(c)
    \/ ShutdownJoin(c)

\* Every thread that can go on does, a thread that waits for queue_mutex_ is
\* not passed over for ever while the mutex keeps being released, and a task
\* that was started returns.
FairSpecPool ==
    /\ PoolInitAll
    /\ [][PoolNext]_vars
    /\ \A w \in Workers : SF_vars(PoolWorkerStep(w))
    /\ \A c \in Callers : SF_vars(PoolCallStep(c))

\* Task t is in the queue.
Queued(t) == \E i \in 1..Len(tasks_) : tasks_[i] = <<t>>

ServerThreads == {AcceptThread, MainThread} \cup {WorkerThread(w) : w \in Workers}

\* Thread t is at a lock statement of queue_mutex_ (thread_pool.cpp:21,
\* thread_pool.h:128).
WaitsForQueue(t) ==
    \/ t = AcceptThread /\ apc = "submit"
    \/ \E w \in Workers : t = WorkerThread(w) /\ wpc[w] = "lock"

\* Thread t is at a lock statement of clients_mutex_ (tcp_server.cpp:122,
\* 162, 230, 251, 267).
WaitsForRegistry(t) ==
    \/ t = AcceptThread /\ apc = "register"
    \/ t = MainThread /\ mpc = "stop_lock"
    \/ \E w \in Workers : t = WorkerThread(w) /\ wpc[w] = "h_close"

\* C35: no thread holds clients_mutex_ and queue_mutex_ together, and no
\* thread that holds one of them is at a lock statement of the other.
C35_NoNestedLocking ==
    \A t \in ServerThreads :
        /\ ~(clients_mutex_ = t /\ queue_mutex_ = t)
        /\ clients_mutex_ = t => ~WaitsForQueue(t)
        /\ queue_mutex_ = t => ~WaitsForRegistry(t)

\* C35 witness: both mutexes are held at once, by different threads: the
\* accept thread is inside submit() while a worker is inside send_to().
C35_Witness ==
    /\ queue_mutex_ = AcceptThread
    /\ apc = "submit_locked"
    /\ \E w \in Workers : clients_mutex_ = WorkerThread(w)

\* --------------------------------------------------- one loop, one identifier
\* Worker w runs handle_client and is inside its while loop
\* (tcp_server.cpp:191-217).
InReceiveLoop(w) ==
    /\ Len(wtask[w]) = 2
    /\ wpc[w] \in {"h_loop", "h_recv", "h_got", "h_msgcb"}

\* C36: no two receive loops read from the same connection identifier, and a
\* receive loop erases from the registry and closes only the connection it
\* was started for, also when descriptor numbers are reused and when the
\* server is stopped and started again.
C36_OneLoopPerIdentifier ==
    /\ [](\A w1, w2 \in Workers :
            (w1 # w2 /\ InReceiveLoop(w1) /\ InReceiveLoop(w2)) =>
                HandlerFd(w1) # HandlerFd(w2))
    /\ [][\A w \in Workers :
            /\ (wpc[w] = "h_close" /\ wpc'[w] = "h_close2") =>
                  clients_[HandlerFd(w)] \in {0, HandlerConn(w)}
            /\ (wpc[w] = "h_close2" /\ wpc'[w] = "h_disc") =>
                  fdtab[HandlerFd(w)] \in {0, HandlerConn(w)}]_vars

\* ------------------------------------------------------------ close, once
\* Descriptor fd still names connection c. Only the server closes the
\* descriptors of accepted connections, so that fd names another connection,
\* or none, means the server has closed c's descriptor before.
StillNames(fd, c) == fdtab[fd] = c

\* C37: the server closes the descriptor of an accepted connection at most
\* once: whenever close_client() or stop() calls close on a descriptor, the
\* descriptor still names the connection the call is made for.
C37_ClosedAtMostOnce ==
    /\ [][\A w \in Workers :
            (wpc[w] = "h_close2" /\ wpc'[w] = "h_disc") =>
                StillNames(HandlerFd(w), HandlerConn(w))]_vars
    /\ [][(mpc = "stop_locked" /\ mpc' = "idle") =>
            \A fd \in FDs : clients_[fd] # 0 => StillNames(fd, clients_[fd])]_vars

\* ------------------------------------------- stop() from two threads at once
\* tcp_server_example.cpp:35-41, 203-205: the signal handler calls
\* g_server->stop() on the thread the signal is delivered to, and main calls
\* server.stop() when its loop ends. The second caller is OtherThread; xpc is
\* its position in stop().

\* std::terminate has been called: a join() threw std::system_error out of
\* stop().
TeardownAborted == xpc = "aborted" \/ mpc = "aborted"

\* tcp_server.cpp:102-104: if (!running_) return; the flag is read.
OtherStopCheck ==
    /\ xpc = "idle"
    /\ running_
    /\ xpc' = "x_stop_set"
    /\ UNCHANGED <<poolVars, callerVars, tcpVars>>
    /\ UNCHANGED <<peerVars, userVars, clientVars, udpServerVars, udpClientVars>>
    /\ UNCHANGED <<send_mutex_, xres>>

\* tcp_server.cpp:106: running_ = false; a store, not an exchange.
OtherStopSet ==
    /\ xpc = "x_stop_set"
    /\ running_' = FALSE
    /\ xpc' = "x_stop_listen"
    /\ UNCHANGED <<server_fd_, clients_, clients_mutex_, apc, afd, aconn, hmsg>>
    /\ UNCHANGED <<poolVars, callerVars, osVars, mainVars, cbVars>>
    /\ UNCHANGED <<peerVars, userVars, clientVars, udpServerVars, udpClientVars>>
    /\ UNCHANGED <<send_mutex_, xres>>

\* tcp_server.cpp:109-116
OtherStopCloseListen ==
    /\ xpc = "x_stop_listen"
    /\ IF server_fd_ >= 0
       THEN listening' = FALSE /\ server_fd_' = -1
       ELSE UNCHANGED <<listening, server_fd_>>
    /\ xpc' = IF apc = "none" THEN "x_stop_lock" ELSE "x_stop_join"
    /\ UNCHANGED <<running_, clients_, clients_mutex_, apc, afd, aconn, hmsg>>
    /\ UNCHANGED <<fdtab, nextConn, sent, rcvd>>
    /\ UNCHANGED <<poolVars, callerVars, mainVars, cbVars>>
    /\ UNCHANGED <<peerVars, userVars, clientVars, udpServerVars, udpClientVars>>
    /\ UNCHANGED <<send_mutex_, xres>>

\* tcp_server.cpp:117: join() returns once accept_loop has returned.
OtherStopJoin ==
    /\ xpc = "x_stop_join"
    /\ apc = "exited"
    /\ apc' = "none"
    /\ xpc' = "x_stop_lock"
    /\ UNCHANGED <<running_, server_fd_, clients_, clients_mutex_, afd, aconn, hmsg>>
    /\ UNCHANGED <<poolVars, callerVars, osVars, mainVars, cbVars>>
    /\ UNCHANGED <<peerVars, userVars, clientVars, udpServerVars, udpClientVars>>
    /\ UNCHANGED <<send_mutex_, xres>>

\* The outcomes of accept_thread_.join() for a caller that found the thread
\* joinable while the other caller joined it: two unsynchronised join() calls
\* on one std::thread are a data race; the call returns, or throws
\* std::system_error, which nothing catches.
RacedJoinOutcomes == {"returns", "throws"}

\* tcp_server.cpp:117, the OtherThread in a join() that main has completed.
OtherStopJoinRaced ==
    /\ xpc = "x_stop_join"
    /\ apc = "none"
    /\ \E o \in RacedJoinOutcomes :
         xpc' = IF o = "returns" THEN "x_stop_lock" ELSE "aborted"
    /\ UNCHANGED <<poolVars, callerVars, tcpVars>>
    /\ UNCHANGED <<peerVars, userVars, clientVars, udpServerVars, udpClientVars>>
    /\ UNCHANGED <<send_mutex_, xres>>

\* tcp_server.cpp:117, main in a join() that the OtherThread has completed.
StopJoinRaced ==
    /\ mpc = "stop_join"
    /\ apc = "none"
    /\ \E o \in RacedJoinOutcomes :
         mpc' = IF o = "returns" THEN "stop_lock" ELSE "aborted"
    /\ UNCHANGED <<marg, mres, mtodo, starts>>
    /\ UNCHANGED <<poolVars, callerVars, otherVars, serverVars, osVars, cbVars>>

\* tcp_server.cpp:122
OtherStopLock ==
    /\ xpc = "x_stop_lock"
    /\ clients_mutex_ = NoThread
    /\ clients_mutex_' = OtherThread
    /\ xpc' = "x_stop_locked"
    /\ UNCHANGED <<running_, server_fd_, clients_, apc, afd, aconn, hmsg>>
    /\ UNCHANGED <<poolVars, callerVars, osVars, mainVars, cbVars>>
    /\ UNCHANGED <<peerVars, userVars, clientVars, udpServerVars, udpClientVars>>
    /\ UNCHANGED <<send_mutex_, xres>>

\* tcp_server.cpp:123-131
OtherStopCloseClients ==
    /\ xpc = "x_stop_locked"
    /\ fdtab' = [fd \in FDs |-> IF clients_[fd] # 0 THEN 0 ELSE fdtab[fd]]
    /\ clients_' = [fd \in FDs |-> 0]
    /\ clients_mutex_' = NoThread
    /\ xpc' = "idle"
    /\ UNCHANGED <<running_, server_fd_, apc, afd, aconn, hmsg>>
    /\ UNCHANGED <<listening, nextConn, sent, rcvd>>
    /\ UNCHANGED <<poolVars, callerVars, mainVars, cbVars>>
    /\ UNCHANGED <<peerVars, userVars, clientVars, udpServerVars, udpClientVars>>
    /\ UNCHANGED <<send_mutex_, xres>>

OtherStopStep ==
    \/ OtherStopCheck
    \/ OtherStopSet
    \/ OtherStopCloseListen
    \/ OtherStopJoin
    \/ OtherStopJoinRaced
    \/ OtherStopLock
    \/ OtherStopCloseClients

\* A server with silent peers, stopped by the controlling thread and by the
\* OtherThread; nothing runs once std::terminate was called. start() is
\* called only when accept_thread_ is not joinable (tcp_server.cpp:91 assigns
\* to it).
TeardownNext ==
    \/ ~TeardownAborted /\ apc = "none" /\ StartOk
    \/ ~TeardownAborted /\ AcceptConnection
    \/ ~TeardownAborted /\ AcceptFail
    \/ ~TeardownAborted /\ AcceptThreadStep
    \/ ~TeardownAborted /\ \E w \in Workers : TcpWorkerStep(w)
    \/ ~TeardownAborted /\ \E w \in Workers : HandleRecvEnd(w)
    \/ ~TeardownAborted /\ StopBegin
    \/ ~TeardownAborted /\ StopStep
    \/ ~TeardownAborted /\ StopJoinRaced
    \/ ~TeardownAborted /\ OtherStopStep

SpecTeardown == TcpInitAll /\ [][TeardownNext]_vars

\* The controlling thread, or the OtherThread, is past the test of running_
\* in stop() and has not returned.
MainTearsDown == mpc \in {"stop_listen", "stop_join", "stop_lock", "stop_locked"}
OtherTearsDown ==
    xpc \in {"x_stop_set", "x_stop_listen", "x_stop_join", "x_stop_lock",
             "x_stop_locked"}

\* C38: of two threads that call stop() at the same time only one goes past
\* the test of running_ and tears the server down, so the accept thread is
\* joined by one caller only and no join() fails.
C38_OneCallerTearsDown ==
    /\ ~(MainTearsDown /\ OtherTearsDown)
    /\ ~(mpc = "stop_join" /\ xpc = "x_stop_join")
    /\ ~TeardownAborted

\* ------------------------------------------------ send() beside disconnect()
\* A thread of the client issues the OS send in this step: it takes
\* send_mutex_ and calls ::send(socket_fd_, ...) (thread_pool.h:270-271).
IssuesOsSend ==
    \/ upc = "s_lock" /\ upc' = "s_io"
    \/ xpc = "s_lock" /\ xpc' = "s_io"

\* C39: a send() that has passed the test of connected_ issues the OS send
\* only while socket_fd_ is the descriptor of the open connection:
\* disconnect() has neither closed it nor set it to -1.
C39_SendOnOpenDescriptor ==
    [][IssuesOsSend => (tc_open /\ tc_socket_fd_ >= 0)]_vars

\* ------------------------------------------------- stop() from a callback
\* tcp_server.cpp:170 -> 100-106: the connection callback, on the accept
\* thread, calls stop(); running_ is set and is cleared.
AcceptCallbackStop ==
    /\ apc = "cb"
    /\ running_
    /\ running_' = FALSE
    /\ apc' = "cb_stop_listen"
    /\ UNCHANGED <<server_fd_, clients_, clients_mutex_, afd, aconn, hmsg>>
    /\ UNCHANGED <<poolVars, callerVars, otherVars, osVars, mainVars, cbVars>>

\* tcp_server.cpp:109-116: the listening socket is closed; accept_thread_ is
\* the running thread itself and is joinable.
AcceptCallbackStopCloseListen ==
    /\ apc = "cb_stop_listen"
    /\ IF server_fd_ >= 0
       THEN listening' = FALSE /\ server_fd_' = -1
       ELSE UNCHANGED <<listening, server_fd_>>
    /\ apc' = "cb_stop_join"
    /\ UNCHANGED <<running_, clients_, clients_mutex_, afd, aconn, hmsg>>
    /\ UNCHANGED <<fdtab, nextConn, sent, rcvd>>
    /\ UNCHANGED <<poolVars, callerVars, otherVars, mainVars, cbVars>>

\* What std::thread::join() does when the calling thread is the thread to be
\* joined: it throws std::system_error (resource_deadlock_would_occur) where
\* the thread library detects the case, and the callback catches it or does
\* not; where the library does not detect it the thread waits for itself.
SelfJoinOutcomes == {"caught", "uncaught", "blocks"}

\* tcp_server.cpp:117: accept_thread_.join() on the accept thread. If the
\* callback catches the exception it returns and accept_loop goes on to
\* submit (tcp_server.cpp:174); an exception that leaves accept_loop ends the
\* process.
AcceptCallbackStopJoin ==
    /\ apc = "cb_stop_join"
    /\ \E o \in SelfJoinOutcomes :
         apc' = CASE o = "caught" -> "submit"
                  [] o = "uncaught" -> "aborted"
                  [] o = "blocks" -> "self_join"
    /\ UNCHANGED <<running_, server_fd_, clients_, clients_mutex_, afd, aconn, hmsg>>
    /\ UNCHANGED <<poolVars, callerVars, otherVars, osVars, mainVars, cbVars>>

\* std::terminate has been called on the accept thread.
CallbackAborted == apc = "aborted"

\* A started server whose connection callback may call stop(). start() is
\* called only when accept_thread_ is not joinable.
CallbackStopNext ==
    \/ ~CallbackAborted /\ apc = "none" /\ StartOk
    \/ ~CallbackAborted /\ AcceptConnection
    \/ ~CallbackAborted /\ AcceptThreadStep
    \/ ~CallbackAborted /\ \E w \in Workers : TcpWorkerStep(w)
    \/ ~CallbackAborted /\ \E w \in Workers : HandleRecvEnd(w)
    \/ ~CallbackAborted /\ \E w \in Workers : HandleMessageReturn(w)
    \/ ~CallbackAborted /\ \E c \in Conns : PeerSend(c)
    \/ ~CallbackAborted /\ AcceptCallbackStop
    \/ ~CallbackAborted /\ AcceptCallbackStopCloseListen
    \/ ~CallbackAborted /\ AcceptCallbackStopJoin

SpecCallbackStop == TcpInitAll /\ [][CallbackStopNext]_vars

\* The accept thread is at, or waits inside, the join() of accept_thread_.
JoinsItself == apc \in {"cb_stop_join", "self_join"}

\* C40: a stop() called from the connection callback returns normally: the
\* accept thread never joins itself, and the call neither waits for ever nor
\* ends in an exception that ends the process.
C40_CallbackTeardownReturns == ~JoinsItself /\ ~CallbackAborted

====
